---- MODULE Spec2Model ----
(***************************************************************************)
(* State-machine model of llm-token-tracker: the pricing calculator        *)
(* (pricing.ts), the TokenTracker (tracker.ts) and the FileStorage         *)
(* persistence adapter (storage.ts).                                       *)
(*                                                                         *)
(* Money is kept in fixed point.  A USD amount is an integer number of     *)
(* 1e-10 USD, so that every per-1000-token rate of the pricing table       *)
(* (smallest step 0.0000375) times a whole token count is exact: a rate r  *)
(* per 1000 tokens is the integer r * 1e7 per token.  A KRW amount is an   *)
(* integer number of 1e-8 KRW.                                             *)
(***************************************************************************)
EXTENDS Integers, Sequences, FiniteSets, TLC

(***************************************************************************)
(* Bounds of the model.                                                    *)
(***************************************************************************)
MaxTime == 1
MaxRecords == 2
MaxActive == 1
MaxUnits == 2

(***************************************************************************)
(* Strings: the String.prototype methods the calculator uses.              *)
(***************************************************************************)
CharAt(s, i) == SubSeq(s, i, i)

IsDigit(c) == c \in {"0", "1", "2", "3", "4", "5", "6", "7", "8", "9"}

StartsWith(s, p) == Len(p) <= Len(s) /\ SubSeq(s, 1, Len(p)) = p

Includes(s, sub) ==
    \E i \in 1..(Len(s) - Len(sub) + 1) : SubSeq(s, i, i + Len(sub) - 1) = sub

\* End of the run of digits that starts at index i (i - 1 when s[i] is no digit).
RECURSIVE DigitRunEnd(_, _)
DigitRunEnd(s, i) ==
    IF i <= Len(s) /\ IsDigit(CharAt(s, i)) THEN DigitRunEnd(s, i + 1) ELSE i - 1

\* model.replace(/(\d+)\.(\d+)/g, '$1-$2') scanned from index i; avail says
\* that the character before i is a digit no earlier match has consumed.
RECURSIVE NormalizeFrom(_, _, _)
NormalizeFrom(s, i, avail) ==
    IF i > Len(s) THEN ""
    ELSE IF /\ CharAt(s, i) = "."
            /\ avail
            /\ i < Len(s)
            /\ IsDigit(CharAt(s, i + 1))
         THEN LET e == DigitRunEnd(s, i + 1)
              IN  "-" \o SubSeq(s, i + 1, e) \o NormalizeFrom(s, e + 1, FALSE)
         ELSE CharAt(s, i) \o NormalizeFrom(s, i + 1, IsDigit(CharAt(s, i)))

normalizeModelName(model) == NormalizeFrom(model, 1, FALSE)

(***************************************************************************)
(* PRICING: rates per 1000 tokens times 1e7 (= 1e-10 USD per token);       *)
(* per-image, per-minute and per-character rates in 1e-10 USD.             *)
(***************************************************************************)
Rate(i, o) == [input |-> i, output |-> o]

PRICING_openai ==
    [k \in {"gpt-5", "gpt-5-mini", "gpt-4.1", "gpt-4.1-mini", "gpt-4o",
            "gpt-4o-mini", "o1", "o1-mini", "o1-pro", "o3-mini", "o4-mini",
            "gpt-4-turbo-preview", "gpt-4-turbo", "gpt-4", "gpt-4-32k",
            "gpt-3.5-turbo", "gpt-3.5-turbo-16k", "text-embedding-ada-002",
            "text-embedding-3-small", "text-embedding-3-large", "dall-e-3",
            "dall-e-2", "whisper-1", "tts-1", "tts-1-hd"} |->
        CASE k = "gpt-5" -> Rate(12500, 100000)
          [] k = "gpt-5-mini" -> Rate(2500, 10000)
          [] k = "gpt-4.1" -> Rate(20000, 80000)
          [] k = "gpt-4.1-mini" -> Rate(1500, 6000)
          [] k = "gpt-4o" -> Rate(25000, 100000)
          [] k = "gpt-4o-mini" -> Rate(1500, 6000)
          [] k = "o1" -> Rate(150000, 600000)
          [] k = "o1-mini" -> Rate(11000, 44000)
          [] k = "o1-pro" -> Rate(150000, 600000)
          [] k = "o3-mini" -> Rate(11000, 44000)
          [] k = "o4-mini" -> Rate(11000, 44000)
          [] k = "gpt-4-turbo-preview" -> Rate(100000, 300000)
          [] k = "gpt-4-turbo" -> Rate(100000, 300000)
          [] k = "gpt-4" -> Rate(300000, 600000)
          [] k = "gpt-4-32k" -> Rate(600000, 1200000)
          [] k = "gpt-3.5-turbo" -> Rate(5000, 15000)
          [] k = "gpt-3.5-turbo-16k" -> Rate(10000, 20000)
          [] k = "text-embedding-ada-002" -> Rate(1000, 0)
          [] k = "text-embedding-3-small" -> Rate(200, 0)
          [] k = "text-embedding-3-large" -> Rate(1300, 0)
          [] k = "dall-e-3" -> [standard |-> 400000000, hd |-> 800000000]
          [] k = "dall-e-2" -> [size1024 |-> 200000000]
          [] k = "whisper-1" -> [perMinute |-> 60000000]
          [] k = "tts-1" -> [perChar |-> 150000]
          [] k = "tts-1-hd" -> [perChar |-> 300000]]

PRICING_anthropic ==
    [k \in {"claude-opus-4.1-20250805", "claude-opus-4-20250522",
            "claude-opus-4-20250514", "claude-sonnet-4.5-20250929",
            "claude-sonnet-4-20250514", "claude-3.5-sonnet-20241022",
            "claude-3.5-haiku-20241022", "claude-3-opus-20240229",
            "claude-3-sonnet-20240229", "claude-3-haiku-20240307",
            "claude-2.1", "claude-2.0", "claude-instant-1.2"} |->
        CASE k \in {"claude-opus-4.1-20250805", "claude-opus-4-20250522",
                    "claude-opus-4-20250514", "claude-3-opus-20240229"}
               -> Rate(150000, 750000)
          [] k \in {"claude-sonnet-4.5-20250929", "claude-sonnet-4-20250514",
                    "claude-3.5-sonnet-20241022", "claude-3-sonnet-20240229"}
               -> Rate(30000, 150000)
          [] k \in {"claude-3.5-haiku-20241022", "claude-3-haiku-20240307"}
               -> Rate(2500, 12500)
          [] k \in {"claude-2.1", "claude-2.0"} -> Rate(80000, 240000)
          [] k = "claude-instant-1.2" -> Rate(8000, 24000)]

PRICING_gemini ==
    [k \in {"gemini-2.0-flash-exp", "gemini-2.0-flash-thinking-exp-1219",
            "gemini-1.5-pro", "gemini-1.5-pro-001", "gemini-1.5-pro-002",
            "gemini-1.5-flash", "gemini-1.5-flash-001", "gemini-1.5-flash-002",
            "gemini-1.5-flash-8b", "gemini-1.0-pro", "gemini-1.0-pro-001",
            "gemini-1.0-pro-vision", "gemini-ultra"} |->
        CASE k \in {"gemini-2.0-flash-exp",
                    "gemini-2.0-flash-thinking-exp-1219"} -> Rate(0, 0)
          [] k \in {"gemini-1.5-pro", "gemini-1.5-pro-001",
                    "gemini-1.5-pro-002"} -> Rate(12500, 50000)
          [] k \in {"gemini-1.5-flash", "gemini-1.5-flash-001",
                    "gemini-1.5-flash-002"} -> Rate(750, 3000)
          [] k = "gemini-1.5-flash-8b" -> Rate(375, 1500)
          [] k \in {"gemini-1.0-pro", "gemini-1.0-pro-001"} -> Rate(5000, 15000)
          [] k = "gemini-1.0-pro-vision" -> Rate(2500, 5000)
          [] k = "gemini-ultra" -> Rate(20000, 60000)]

\* The ordered candidate lists of calculateCost (normalized spelling).
gptModels ==
    << "gpt-5", "gpt-5-mini", "gpt-4-1", "gpt-4-1-mini",
       "gpt-4o", "gpt-4o-mini",
       "o1", "o1-mini", "o1-pro", "o3-mini", "o4-mini",
       "gpt-4-turbo-preview", "gpt-4-turbo", "gpt-4", "gpt-4-32k",
       "gpt-3-5-turbo", "gpt-3-5-turbo-16k" >>

claudeModels ==
    << "claude-opus-4-1-20250805", "claude-opus-4-20250522",
       "claude-opus-4-20250514",
       "claude-sonnet-4-5-20250929", "claude-sonnet-4-20250514",
       "claude-3-5-sonnet-20241022", "claude-3-5-haiku-20241022",
       "claude-3-opus-20240229", "claude-3-sonnet-20240229",
       "claude-3-haiku-20240307",
       "claude-2-1", "claude-2-0", "claude-instant-1-2" >>

geminiModels ==
    << "gemini-2-0-flash-exp", "gemini-2-0-flash-thinking-exp-1219",
       "gemini-1-5-pro", "gemini-1-5-pro-001", "gemini-1-5-pro-002",
       "gemini-1-5-flash", "gemini-1-5-flash-001", "gemini-1-5-flash-002",
       "gemini-1-5-flash-8b",
       "gemini-1-0-pro", "gemini-1-0-pro-001", "gemini-1-0-pro-vision",
       "gemini-ultra" >>

\* "Map normalized names back to pricing keys" (openai).
gptPricingKey(gptModel) ==
    CASE gptModel = "gpt-4-1" -> "gpt-4.1"
      [] gptModel = "gpt-4-1-mini" -> "gpt-4.1-mini"
      [] gptModel = "gpt-3-5-turbo" -> "gpt-3.5-turbo"
      [] gptModel = "gpt-3-5-turbo-16k" -> "gpt-3.5-turbo-16k"
      [] OTHER -> gptModel

\* "Map normalized names back to pricing keys" (anthropic).
claudePricingKey(claudeModel) ==
    CASE claudeModel = "claude-opus-4-1-20250805" -> "claude-opus-4.1-20250805"
      [] claudeModel = "claude-sonnet-4-5-20250929" -> "claude-sonnet-4.5-20250929"
      [] claudeModel = "claude-3-5-sonnet-20241022" -> "claude-3.5-sonnet-20241022"
      [] claudeModel = "claude-3-5-haiku-20241022" -> "claude-3.5-haiku-20241022"
      [] claudeModel = "claude-2-1" -> "claude-2.1"
      [] claudeModel = "claude-2-0" -> "claude-2.0"
      [] claudeModel = "claude-instant-1-2" -> "claude-instant-1.2"
      [] OTHER -> claudeModel

\* "Map normalized names back to pricing keys" (gemini).
geminiPricingKey(geminiModel) ==
    CASE geminiModel = "gemini-2-0-flash-exp" -> "gemini-2.0-flash-exp"
      [] geminiModel = "gemini-2-0-flash-thinking-exp-1219"
           -> "gemini-2.0-flash-thinking-exp-1219"
      [] geminiModel = "gemini-1-5-pro" -> "gemini-1.5-pro"
      [] geminiModel = "gemini-1-5-pro-001" -> "gemini-1.5-pro-001"
      [] geminiModel = "gemini-1-5-pro-002" -> "gemini-1.5-pro-002"
      [] geminiModel = "gemini-1-5-flash" -> "gemini-1.5-flash"
      [] geminiModel = "gemini-1-5-flash-001" -> "gemini-1.5-flash-001"
      [] geminiModel = "gemini-1-5-flash-002" -> "gemini-1.5-flash-002"
      [] geminiModel = "gemini-1-5-flash-8b" -> "gemini-1.5-flash-8b"
      [] geminiModel = "gemini-1-0-pro" -> "gemini-1.0-pro"
      [] geminiModel = "gemini-1-0-pro-001" -> "gemini-1.0-pro-001"
      [] geminiModel = "gemini-1-0-pro-vision" -> "gemini-1.0-pro-vision"
      [] OTHER -> geminiModel

\* The output cost subtracted instead of added.
TokenCost_Minus(pricing, inputTokens, outputTokens) ==
    inputTokens * pricing.input - outputTokens * pricing.output

\* (inputTokens / 1000) * input + (outputTokens / 1000) * output
TokenCost(pricing, inputTokens, outputTokens) ==
    inputTokens * pricing.input + outputTokens * pricing.output

\* The gptModels loop: the cost returned by the first candidate that the
\* normalized name contains and whose pricing entry has token rates;
\* NoReturn when the loop runs to its end.
NoReturn == -1

RECURSIVE gptLoop(_, _, _, _)
gptLoop(normalizedModel, i, inputTokens, outputTokens) ==
    IF i > Len(gptModels) THEN NoReturn
    ELSE LET modelPricing == PRICING_openai[gptPricingKey(gptModels[i])]
         IN  IF /\ Includes(normalizedModel, gptModels[i])
                /\ "input" \in DOMAIN modelPricing
             THEN TokenCost(modelPricing, inputTokens, outputTokens)
             ELSE gptLoop(normalizedModel, i + 1, inputTokens, outputTokens)

RECURSIVE claudeLoop(_, _, _, _)
claudeLoop(normalizedModel, i, inputTokens, outputTokens) ==
    IF i > Len(claudeModels) THEN NoReturn
    ELSE IF Includes(normalizedModel, claudeModels[i])
         THEN TokenCost(PRICING_anthropic[claudePricingKey(claudeModels[i])],
                        inputTokens, outputTokens)
         ELSE claudeLoop(normalizedModel, i + 1, inputTokens, outputTokens)

RECURSIVE geminiLoop(_, _, _, _)
geminiLoop(normalizedModel, i, inputTokens, outputTokens) ==
    IF i > Len(geminiModels) THEN NoReturn
    ELSE IF Includes(normalizedModel, geminiModels[i])
         THEN TokenCost(PRICING_gemini[geminiPricingKey(geminiModels[i])],
                        inputTokens, outputTokens)
         ELSE geminiLoop(normalizedModel, i + 1, inputTokens, outputTokens)

\* Flat rate of an unknown provider: 0.001 USD per token.
UnknownProviderRate == 10000000

calculateCostOpenAI(normalizedModel, inputTokens, outputTokens) ==
    IF StartsWith(normalizedModel, "dall-e")
    THEN inputTokens * PRICING_openai["dall-e-3"].standard
    ELSE IF normalizedModel = "whisper-1"
    THEN (inputTokens * PRICING_openai["whisper-1"].perMinute) \div 60
    ELSE IF /\ StartsWith(normalizedModel, "tts-")
            /\ normalizedModel \in DOMAIN PRICING_openai
            /\ "perChar" \in DOMAIN PRICING_openai[normalizedModel]
    THEN inputTokens * PRICING_openai[normalizedModel].perChar
    ELSE LET found == gptLoop(normalizedModel, 1, inputTokens, outputTokens)
         IN  IF found # NoReturn THEN found
             ELSE TokenCost(PRICING_openai["gpt-3.5-turbo"],
                            inputTokens, outputTokens)

\* The anthropic branch defaulting to claude-3-haiku-20240307.
calculateCostAnthropic_Haiku(normalizedModel, inputTokens, outputTokens) ==
    LET found == claudeLoop(normalizedModel, 1, inputTokens, outputTokens)
    IN  IF found # NoReturn THEN found
        ELSE TokenCost(PRICING_anthropic["claude-3-haiku-20240307"],
                       inputTokens, outputTokens)

calculateCostAnthropic(normalizedModel, inputTokens, outputTokens) ==
    LET found == claudeLoop(normalizedModel, 1, inputTokens, outputTokens)
    IN  IF found # NoReturn THEN found
        ELSE TokenCost(PRICING_anthropic["claude-3-sonnet-20240229"],
                       inputTokens, outputTokens)

\* The gemini branch without its candidate loop.
calculateCostGemini_DefaultOnly(normalizedModel, inputTokens, outputTokens) ==
    TokenCost(PRICING_gemini["gemini-1.5-flash"], inputTokens, outputTokens)

calculateCostGemini(normalizedModel, inputTokens, outputTokens) ==
    LET found == geminiLoop(normalizedModel, 1, inputTokens, outputTokens)
    IN  IF found # NoReturn THEN found
        ELSE TokenCost(PRICING_gemini["gemini-1.5-flash"],
                       inputTokens, outputTokens)

\* console.warn(`Unknown provider: ...`) is reached.
warnsUnknownProvider(provider) ==
    provider \notin {"openai", "anthropic", "gemini"}

\* calculateCost charging an unknown provider for its input only.
calculateCost_InputOnly(provider, model, inputTokens, outputTokens) ==
    LET normalizedModel == normalizeModelName(model)
    IN  CASE provider = "openai"
               -> calculateCostOpenAI(normalizedModel, inputTokens, outputTokens)
          [] provider = "anthropic"
               -> calculateCostAnthropic(normalizedModel, inputTokens, outputTokens)
          [] provider = "gemini"
               -> calculateCostGemini(normalizedModel, inputTokens, outputTokens)
          [] OTHER -> inputTokens * UnknownProviderRate

\* calculateCost(provider, model, inputTokens, outputTokens), in 1e-10 USD.
calculateCost(provider, model, inputTokens, outputTokens) ==
    LET normalizedModel == normalizeModelName(model)
    IN  CASE provider = "openai"
               -> calculateCostOpenAI(normalizedModel, inputTokens, outputTokens)
          [] provider = "anthropic"
               -> calculateCostAnthropic(normalizedModel, inputTokens, outputTokens)
          [] provider = "gemini"
               -> calculateCostGemini(normalizedModel, inputTokens, outputTokens)
          [] OTHER -> (inputTokens + outputTokens) * UnknownProviderRate

(***************************************************************************)
(* JavaScript values.  undefined is a sentinel of the field's type; a Date *)
(* is its time value; the ISO string Date.prototype.toJSON produces is the *)
(* record [iso |-> time value].                                            *)
(***************************************************************************)
undefinedNum == -1
undefinedStr == "<undefined>"
undefinedObj == [undefined |-> TRUE]

\* x || d for a number: undefined and 0 are falsy.
OrNum(x, d) == IF x = undefinedNum \/ x = 0 THEN d ELSE x

\* x || d for a string: undefined and '' are falsy.
OrStr(x, d) == IF x = undefinedStr \/ x = "" THEN d ELSE x

\* x || d for an object: only undefined is falsy.
OrObj(x, d) == IF x = undefinedObj THEN d ELSE x

toISOString(date) == [iso |-> date]

newDate(isoString) == isoString.iso

EmptyMap == << >>

MapSet(map, key, value) ==
    [k \in (DOMAIN map) \cup {key} |-> IF k = key THEN value ELSE map[k]]

MapDelete(map, key) == [k \in (DOMAIN map) \ {key} |-> map[k]]

MapGet(map, key, absent) == IF key \in DOMAIN map THEN map[key] ELSE absent

(***************************************************************************)
(* TokenTracker state, the storage file and the clock.                     *)
(***************************************************************************)
VARIABLES
    config,          \* TrackerConfig: currency, enableFileStorage
    defaultUserId,   \* TokenTracker.defaultUserId
    usageHistory,    \* Map userId -> TokenUsage[]
    userTotals,      \* Map userId -> UserUsage
    activeTracking,  \* Map trackingId -> {userId, sessionId, startTime}
    file,            \* ~/.llm-token-tracker/sessions.json
    now,             \* Date.now()
    saveFailed,      \* the tracker's latest FileStorage.save or clear returned false
    lastOp,          \* the last call on the tracker and its outcome
    observed,        \* observer: the ids startTracking issued, endTracking completed
    calc,            \* a call of calculateCost: its arguments and its result
    mcpResult,       \* the MCP server's last tool call and what it returned
    exchangeRate,    \* ExchangeRateManager: expiry, cache file, last rate returned
    calls            \* the wrapped provider calls in flight: position, tracking id, usage so far

vars == << config, defaultUserId, usageHistory, userTotals, activeTracking,
           file, now, saveFailed, lastOp, observed, calc, mcpResult, exchangeRate,
           calls >>

(***************************************************************************)
(* Inputs of the calls.                                                    *)
(***************************************************************************)
UserIds == {"u1", "u2"}

\* The (userId?, sessionId?) arguments startTracking is called with.
StartArgs ==
    { [userId |-> undefinedStr, sessionId |-> undefinedStr],
      [userId |-> "u2", sessionId |-> "s1"] }

\* The suffixes Math.random().toString(36).substr(2, 9) can produce.
RandomSuffixes == {"a", "b"}

\* `track_${Date.now()}_${suffix}`
TrackingId(time, suffix) == [time |-> time, suffix |-> suffix]

TrackingIds == {TrackingId(t, r) : t \in 0..MaxTime, r \in RandomSuffixes}

PartialUsage(provider, model, totalTokens, inputTokens, outputTokens, cost, metadata) ==
    [provider |-> provider, model |-> model, totalTokens |-> totalTokens,
     inputTokens |-> inputTokens, outputTokens |-> outputTokens,
     cost |-> cost, metadata |-> metadata]

\* The Partial<TokenUsage> arguments endTracking is called with.
UsageInputs ==
    { PartialUsage("openai", "gpt-3.5-turbo", undefinedNum, 100, 50,
                   undefinedObj, undefinedObj),
      PartialUsage(undefinedStr, undefinedStr, undefinedNum, undefinedNum,
                   undefinedNum, undefinedObj, [error |-> TRUE]) }

(***************************************************************************)
(* FileStorage: the file is Absent, Corrupt (not parseable) or the JSON    *)
(* document save wrote.                                                    *)
(***************************************************************************)
Absent == [absent |-> TRUE]
Corrupt == [corrupt |-> TRUE]
null == [null |-> TRUE]

\* The undefined of each property of a TokenUsage.
UndefinedOf(key) ==
    CASE key \in {"totalTokens", "inputTokens", "outputTokens", "timestamp"}
           -> undefinedNum
      [] key \in {"provider", "model", "userId", "sessionId"} -> undefinedStr
      [] OTHER -> undefinedObj

UsageKeys == {"provider", "model", "totalTokens", "inputTokens", "outputTokens",
              "cost", "timestamp", "userId", "sessionId", "metadata"}

\* JSON.stringify of a TokenUsage: properties holding undefined are left out,
\* the Date becomes its ISO string.
StringifyUsage(usage) ==
    [k \in {key \in UsageKeys : usage[key] # UndefinedOf(key)} |->
        IF k = "timestamp" THEN toISOString(usage[k]) ELSE usage[k]]

\* JSON.stringify of a UserUsage.
StringifyTotal(total) == [total EXCEPT !.lastUsed = toISOString(total.lastUsed)]

\* A revival that reads a missing token count as 0.
ReviveUsage_Zero(parsed) ==
    [k \in UsageKeys |->
        IF k \notin DOMAIN parsed
        THEN IF k \in {"totalTokens", "inputTokens", "outputTokens"}
             THEN 0 ELSE UndefinedOf(k)
        ELSE IF k = "timestamp" THEN newDate(parsed[k]) ELSE parsed[k]]

\* A parsed usage as load returns it: reading a property the document lacks
\* gives undefined; timestamp = new Date(timestamp).
ReviveUsage(parsed) ==
    [k \in UsageKeys |->
        IF k \notin DOMAIN parsed THEN UndefinedOf(k)
        ELSE IF k = "timestamp" THEN newDate(parsed[k]) ELSE parsed[k]]

ReviveTotal(parsed) == [parsed EXCEPT !.lastUsed = newDate(parsed.lastUsed)]

\* FileStorage.save: the document written when writeFileSync succeeds.
SavedDocument(history, totals, time) ==
    [history |-> [u \in DOMAIN history |->
                    [i \in 1..Len(history[u]) |-> StringifyUsage(history[u][i])]],
     totals |-> [u \in DOMAIN totals |-> StringifyTotal(totals[u])],
     lastSaved |-> toISOString(time)]

\* FileStorage.load: null for a missing file, for one JSON.parse rejects and
\* for a document without history or totals (Object.values(undefined) throws
\* inside the try); any other document is returned with its dates revived,
\* whatever its entries hold.
load(f) ==
    IF f = Absent \/ f = Corrupt THEN null
    ELSE IF "history" \notin DOMAIN f \/ "totals" \notin DOMAIN f THEN null
    ELSE [history |-> [u \in DOMAIN f.history |->
                         [i \in 1..Len(f.history[u]) |-> ReviveUsage(f.history[u][i])]],
          totals |-> [u \in DOMAIN f.totals |-> ReviveTotal(f.totals[u])],
          lastSaved |-> f.lastSaved]

\* Outcomes of FileStorage.save: written, or writeFileSync threw after it
\* had truncated the file.
SaveOutcomes == {"ok", "corrupt"}

\* The file after FileStorage.save(history, totals) with the given outcome.
save(f, history, totals, time, outcome) ==
    IF outcome = "ok" THEN SavedDocument(history, totals, time) ELSE Corrupt

\* TokenTracker.saveToStorage: a no-op without storage.
saveToStorage(history, totals, outcome) ==
    /\ file' = IF config.enableFileStorage
               THEN save(file, history, totals, now, outcome)
               ELSE file
    /\ saveFailed' = IF config.enableFileStorage THEN outcome # "ok" ELSE saveFailed

\* The outcomes a call of saveToStorage can have under the configuration.
OutcomesOf(cfg) == IF cfg.enableFileStorage THEN SaveOutcomes ELSE {"none"}

(***************************************************************************)
(* TokenTracker.                                                           *)
(***************************************************************************)
\* The configurations a tracker is constructed with.
Configs ==
    { [currency |-> "USD", enableFileStorage |-> TRUE],
      [currency |-> "KRW", enableFileStorage |-> FALSE] }

\* "Approximate exchange rate" of TokenTracker.calculateCost.
KRWRate == 1300

\* A KRW amount is counted in 1e-8 KRW, a USD amount in 1e-10 USD.
KRWUnit == 100

Cost(amount, currency) == [amount |-> amount, currency |-> currency]

\* The calls of calculateCost the provider wrappers and the compare_costs tool
\* lead to: provider, model, inputTokens, outputTokens.
PricedCalls ==
    { << pm[1], pm[2], i, o >> :
         pm \in {"openai"} \X {"gpt-3.5-turbo", "unknown"}
                   \cup {"anthropic"} \X {"claude-3-sonnet-20240229",
                                           "claude-3-haiku-20240307", "unknown"}
                   \cup {"gemini"} \X {"gemini-1.5-pro"},
         i \in {0, 100}, o \in {0, 1, 2, 3, 7, 50} }
    \cup
    { << pm[1], pm[2], io[1], io[2] >> :
         pm \in {"openai"} \X {"gpt-3.5-turbo", "gpt-4"}
                   \cup {"anthropic"} \X {"claude-3-haiku-20240307",
                                           "claude-3-sonnet-20240229",
                                           "claude-3-opus-20240229"},
         io \in {<< 0, 0 >>, << 1, 2 >>, << 500, 500 >>} }

\* calculateCost over PricedCalls, evaluated once and kept as a table.
PricedCosts ==
    [priced \in PricedCalls |->
        calculateCost(priced[1], priced[2], priced[3], priced[4])] @@ << >>

\* The private calculateCost converting when the currency is not KRW.
TrackerCalculateCost_Inverted(cfg, provider, model, inputTokens, outputTokens) ==
    LET costUSD == calculateCost(provider, model, inputTokens, outputTokens)
    IN  IF cfg.currency # "KRW"
        THEN Cost((costUSD * KRWRate) \div KRWUnit, "KRW")
        ELSE Cost(costUSD, "USD")

\* TokenTracker.calculateCost (the private method).  The costs of the calls
\* the provider wrappers make are read from PricedCosts.
TrackerCalculateCost(cfg, provider, model, inputTokens, outputTokens) ==
    LET priced == << provider, model, inputTokens, outputTokens >>
        costUSD == IF priced \in DOMAIN PricedCosts THEN PricedCosts[priced]
                   ELSE calculateCost(provider, model, inputTokens, outputTokens)
    IN  IF cfg.currency = "KRW"
        THEN Cost((costUSD * KRWRate) \div KRWUnit, "KRW")
        ELSE Cost(costUSD, "USD")

\* { ...usage.metadata, duration }
WithDuration(metadata, duration) ==
    LET spread == IF metadata = undefinedObj THEN EmptyMap ELSE metadata
    IN  MapSet(spread, "duration", duration)

\* The fullUsage object endTracking builds.
FullUsage(cfg, tracking, usage, time) ==
    [provider |-> OrStr(usage.provider, "openai"),
     model |-> OrStr(usage.model, "unknown"),
     totalTokens |-> OrNum(usage.totalTokens,
                           OrNum(usage.inputTokens, 0) + OrNum(usage.outputTokens, 0)),
     inputTokens |-> usage.inputTokens,
     outputTokens |-> usage.outputTokens,
     cost |-> OrObj(usage.cost,
                    TrackerCalculateCost(cfg,
                                         OrStr(usage.provider, "openai"),
                                         OrStr(usage.model, "unknown"),
                                         OrNum(usage.inputTokens, 0),
                                         OrNum(usage.outputTokens, 0))),
     timestamp |-> time,
     userId |-> tracking.userId,
     sessionId |-> tracking.sessionId,
     metadata |-> WithDuration(usage.metadata, time - tracking.startTime)]

\* The key recordUsage files a usage under.
HistoryKey(usage) == OrStr(usage.userId, "anonymous")

\* usageHistory after recordUsage's push.
PushHistory(history, userId, usage) ==
    MapSet(history, userId, Append(MapGet(history, userId, << >>), usage))

\* `${usage.provider}/${usage.model}`
ModelKey(usage) == usage.provider \o "/" \o usage.model

\* updateUserTotals counting inputTokens + outputTokens instead of the
\* record's totalTokens.
updateUserTotals_InPlusOut(totals, cfg, userId, usage, time) ==
    LET userTotal == MapGet(totals, userId,
                            [userId |-> userId, totalTokens |-> 0, totalCost |-> 0,
                             currency |-> OrStr(cfg.currency, "USD"),
                             usageByModel |-> EmptyMap, lastUsed |-> time])
        modelKey == ModelKey(usage)
        byModel == MapGet(userTotal.usageByModel, modelKey, [tokens |-> 0, cost |-> 0])
    IN  MapSet(totals, userId,
               [userTotal EXCEPT
                  !.totalTokens = @ + usage.inputTokens + usage.outputTokens,
                  !.totalCost = @ + usage.cost.amount,
                  !.lastUsed = usage.timestamp,
                  !.usageByModel =
                      MapSet(@, modelKey,
                             [tokens |-> byModel.tokens + usage.totalTokens,
                              cost |-> byModel.cost + usage.cost.amount])])

\* userTotals after TokenTracker.updateUserTotals(userId, usage).
updateUserTotals(totals, cfg, userId, usage, time) ==
    LET userTotal == MapGet(totals, userId,
                            [userId |-> userId, totalTokens |-> 0, totalCost |-> 0,
                             currency |-> OrStr(cfg.currency, "USD"),
                             usageByModel |-> EmptyMap, lastUsed |-> time])
        modelKey == ModelKey(usage)
        byModel == MapGet(userTotal.usageByModel, modelKey, [tokens |-> 0, cost |-> 0])
    IN  MapSet(totals, userId,
               [userTotal EXCEPT
                  !.totalTokens = @ + usage.totalTokens,
                  !.totalCost = @ + usage.cost.amount,
                  !.lastUsed = usage.timestamp,
                  !.usageByModel =
                      MapSet(@, modelKey,
                             [tokens |-> byModel.tokens + usage.totalTokens,
                              cost |-> byModel.cost + usage.cost.amount])])

\* Number of records held in a history map.
RECURSIVE TotalRecords(_)
TotalRecords(history) ==
    IF DOMAIN history = {} THEN 0
    ELSE LET u == CHOOSE x \in DOMAIN history : TRUE
         IN  Len(history[u]) + TotalRecords(MapDelete(history, u))

\* The call the tracker served last and what came of it.
Op(name, ok) == [name |-> name, ok |-> ok]

\* updateUserTotals throws a TypeError at userTotal.usageByModel[modelKey] when
\* the user's aggregate has no usageByModel (one taken from a snapshot file).
updateUserTotalsThrows(totals, userId) ==
    /\ userId \in DOMAIN totals
    /\ "usageByModel" \notin DOMAIN totals[userId]

\* The aggregate as the statements before the throw leave it.
updateUserTotalsBeforeThrow(totals, userId, usage) ==
    [totals EXCEPT ![userId] =
        [@ EXCEPT !.totalTokens = @ + usage.totalTokens,
                  !.totalCost = @ + usage.cost.amount,
                  !.lastUsed = usage.timestamp]]

\* recordUsage(usage) throws out of updateUserTotals.
recordUsageThrows(usage) == updateUserTotalsThrows(userTotals, HistoryKey(usage))

\* A recordUsage whose update of the aggregate starts from an empty one: what
\* the user had accumulated is lost.
recordUsageEffect_LostUpdate(usage, outcome) ==
    LET userId == HistoryKey(usage)
        history == PushHistory(usageHistory, userId, usage)
        totals == MapSet(userTotals, userId,
                         updateUserTotals(EmptyMap, config, userId, usage, now)[userId])
    IN  /\ usageHistory' = history
        /\ userTotals' = totals
        /\ saveToStorage(history, totals, outcome)

\* TokenTracker.recordUsage(usage): history, totals, write-through save; when
\* updateUserTotals throws, the record is already in the history and nothing
\* after it runs.
recordUsageEffect(usage, outcome) ==
    LET userId == HistoryKey(usage)
        history == PushHistory(usageHistory, userId, usage)
    IN  IF recordUsageThrows(usage)
        THEN /\ usageHistory' = history
             /\ userTotals' = updateUserTotalsBeforeThrow(userTotals, userId, usage)
             /\ UNCHANGED << file, saveFailed >>
        ELSE LET totals == updateUserTotals(userTotals, config, userId, usage, now)
             IN  /\ usageHistory' = history
                 /\ userTotals' = totals
                 /\ saveToStorage(history, totals, outcome)

\* A constructor that takes the histories of the snapshot but not its totals.
constructed_HistoryOnly(cfg, f) ==
    LET data == IF cfg.enableFileStorage THEN load(f) ELSE null
    IN  [usageHistory |-> IF data = null THEN EmptyMap ELSE data.history,
         userTotals |-> EmptyMap]

\* new TokenTracker(cfg): the maps start empty and are replaced by the
\* snapshot when storage is enabled and load returns one.
constructed(cfg, f) ==
    LET data == IF cfg.enableFileStorage THEN load(f) ELSE null
    IN  [usageHistory |-> IF data = null THEN EmptyMap ELSE data.history,
         userTotals |-> IF data = null THEN EmptyMap ELSE data.totals]

NothingObserved == [issued |-> {}, ended |-> {}]

\* No tool of the MCP server has been called.
NoToolCall == [tool |-> "none"]

\* The most wrapped provider calls in flight at once.
MaxCalls == 2

\* No wrapped provider call has been made.
NoCalls == [c \in 1..MaxCalls |-> [pc |-> "idle"]]

(***************************************************************************)
(* ExchangeRateManager.  The clock counts hours; the cache file is Absent, *)
(* Corrupt, the JSON document saveToCache wrote, or another JSON object.   *)
(***************************************************************************)
\* cacheExpiryHours: number = 24
DefaultExpiryHours == 24

\* private fallbackRate: number = 1380
fallbackRate == 1380

\* new ExchangeRateManager(cacheExpiryHours); nothing returned yet.
ExchangeRateManager(cacheExpiryHours) ==
    [cacheExpiryHours |-> cacheExpiryHours, cache |-> Absent,
     returned |-> undefinedNum]

\* loadFromCache()
loadFromCache(cache) == IF cache = Absent \/ cache = Corrupt THEN null ELSE cache

\* cached.rate: undefined when the document has no rate.
rateOf(cached) == IF "rate" \in DOMAIN cached THEN cached.rate ELSE undefinedNum

\* cached.lastUpdated: undefined when the document has none.
lastUpdatedOf(cached) ==
    IF "lastUpdated" \in DOMAIN cached THEN cached.lastUpdated ELSE undefinedObj

\* An expiry test that counts a cache of exactly the expiry age as expired.
isCacheExpired_AtExpiry(lastUpdated, cacheExpiryHours, time) ==
    /\ lastUpdated # undefinedObj
    /\ (time - newDate(lastUpdated)) >= cacheExpiryHours

\* isCacheExpired(lastUpdated): new Date(undefined).getTime() is NaN, and no
\* comparison with NaN is true.
isCacheExpired(lastUpdated, cacheExpiryHours, time) ==
    /\ lastUpdated # undefinedObj
    /\ (time - newDate(lastUpdated)) > cacheExpiryHours

\* The outcomes of fetchExchangeRate: it throws, or returns data.rates.KRW.
FetchOutcomes == {[ok |-> FALSE], [ok |-> TRUE, rate |-> 1350]}

\* The rate getUSDtoKRW returns over the cache, at the time, when a fetch it
\* makes has the outcome.
rateOfGetUSDtoKRW(manager, time, fetched) ==
    LET cached == loadFromCache(manager.cache)
    IN  IF cached # null
           /\ ~isCacheExpired(lastUpdatedOf(cached), manager.cacheExpiryHours, time)
        THEN rateOf(cached)
        ELSE IF fetched.ok THEN fetched.rate
        ELSE IF cached # null THEN rateOf(cached)
        ELSE fallbackRate

\* The cache file after getUSDtoKRW: saveToCache writes the fetched rate, or
\* fails without a trace.
cacheAfterGetUSDtoKRW(manager, time, fetched, written) ==
    LET cached == loadFromCache(manager.cache)
    IN  IF cached # null
           /\ ~isCacheExpired(lastUpdatedOf(cached), manager.cacheExpiryHours, time)
        THEN manager.cache
        ELSE IF fetched.ok /\ written
        THEN [rate |-> fetched.rate, lastUpdated |-> toISOString(time),
              source |-> "exchangerate-api"]
        ELSE manager.cache

\* The state of everything but the exchange rate manager.
InitTracker ==
    /\ config \in Configs
    /\ defaultUserId = undefinedStr
    /\ file = Absent
    /\ usageHistory = constructed(config, file).usageHistory
    /\ userTotals = constructed(config, file).userTotals
    /\ activeTracking = EmptyMap
    /\ now = 0
    /\ saveFailed = FALSE
    /\ lastOp = Op("constructor", TRUE)
    /\ observed = NothingObserved
    /\ calc = [pc |-> "idle"]
    /\ mcpResult = NoToolCall
    /\ calls = NoCalls

Init ==
    /\ InitTracker
    /\ exchangeRate = ExchangeRateManager(DefaultExpiryHours)

\* The process ends and a new one constructs its tracker, with the same
\* configuration, over the same file.
Restart ==
    /\ config' = config
    /\ defaultUserId' = undefinedStr
    /\ usageHistory' = constructed(config, file).usageHistory
    /\ userTotals' = constructed(config, file).userTotals
    /\ activeTracking' = EmptyMap
    /\ saveFailed' = FALSE
    /\ lastOp' = Op("constructor", TRUE)
    /\ observed' = NothingObserved
    /\ calls' = NoCalls
    /\ UNCHANGED << file, now, calc, mcpResult, exchangeRate >>

\* The clock advances.
Tick ==
    /\ now < MaxTime
    /\ now' = now + 1
    /\ UNCHANGED << config, defaultUserId, usageHistory, userTotals,
                    activeTracking, file, saveFailed, lastOp, observed, calc, mcpResult, exchangeRate, calls >>

\* What startTracking(userId?, sessionId?) does when Math.random yields suffix.
startTrackingEffect(userId, sessionId, suffix) ==
    /\ activeTracking' =
          MapSet(activeTracking, TrackingId(now, suffix),
                 [userId |-> OrStr(userId, defaultUserId),
                  sessionId |-> sessionId,
                  startTime |-> now])
    /\ lastOp' = Op("startTracking", TRUE)
    /\ UNCHANGED << config, defaultUserId, usageHistory, userTotals,
                    file, now, saveFailed, calc, mcpResult, exchangeRate >>

\* startTracking(userId?, sessionId?) while at most MaxActive sessions are
\* active.  (The observer's variable is left to the specification.)
startTracking(userId, sessionId, suffix) ==
    /\ Cardinality((DOMAIN activeTracking) \cup {TrackingId(now, suffix)}) <= MaxActive
    /\ startTrackingEffect(userId, sessionId, suffix)

\* An endTracking that records the usage before it looks the id up: for an
\* id the map lacks the record is made, for no user, and then it throws.
endTrackingEffect_RecordsFirst(trackingId, usage, outcome) ==
    LET tracking == MapGet(activeTracking, trackingId,
                           [userId |-> undefinedStr, sessionId |-> undefinedStr,
                            startTime |-> now])
        fullUsage == FullUsage(config, tracking, usage, now)
    IN  /\ TotalRecords(usageHistory) < MaxRecords
        /\ recordUsageEffect(fullUsage, outcome)
        /\ activeTracking' = IF recordUsageThrows(fullUsage) THEN activeTracking
                             ELSE MapDelete(activeTracking, trackingId)
        /\ UNCHANGED << config, defaultUserId, now, calc, mcpResult, exchangeRate >>

\* What endTracking(trackingId, usage) does to the tracker: nothing for an id
\* the map lacks (it throws); otherwise it records the full usage and deletes
\* the entry, unless recordUsage threw.
endTrackingEffect(trackingId, usage, outcome) ==
    IF trackingId \notin DOMAIN activeTracking
    THEN UNCHANGED << config, defaultUserId, usageHistory, userTotals,
                      activeTracking, file, now, saveFailed, calc, mcpResult, exchangeRate >>
    ELSE LET fullUsage == FullUsage(config, activeTracking[trackingId], usage, now)
         IN  /\ TotalRecords(usageHistory) < MaxRecords
             /\ recordUsageEffect(fullUsage, outcome)
             /\ activeTracking' = IF recordUsageThrows(fullUsage) THEN activeTracking
                                  ELSE MapDelete(activeTracking, trackingId)
             /\ UNCHANGED << config, defaultUserId, now, calc, mcpResult, exchangeRate >>

\* endTracking(trackingId, usage) returns: the id is in the map and the
\* recordUsage it calls does not throw.
endTrackingReturns(trackingId, usage) ==
    IF trackingId \notin DOMAIN activeTracking THEN FALSE
    ELSE ~recordUsageThrows(FullUsage(config, activeTracking[trackingId], usage, now))

\* endTracking(trackingId, usage): throws `Tracking ID ... not found` for an
\* id the map lacks; otherwise records the full usage and deletes the entry.
\* (The observer's variable is left to the specification.)
endTracking(trackingId, usage, outcome) ==
    /\ endTrackingEffect(trackingId, usage, outcome)
    /\ lastOp' = Op("endTracking", endTrackingReturns(trackingId, usage))

\* The outcomes of the save a call of endTracking reaches: none when it throws.
EndOutcomes(trackingId) ==
    IF trackingId \in DOMAIN activeTracking THEN OutcomesOf(config) ELSE {"none"}

\* The TokenUsage objects recordUsage is called with directly.
RecordInputs(time) ==
    { [provider |-> "gemini", model |-> "gemini-1.5-flash", totalTokens |-> 160,
       inputTokens |-> 100, outputTokens |-> 50, cost |-> Cost(225000, "USD"),
       timestamp |-> time, userId |-> "u2", sessionId |-> undefinedStr,
       metadata |-> undefinedObj] }

\* recordUsage(usage) called directly.
recordUsage(usage, outcome) ==
    /\ TotalRecords(usageHistory) < MaxRecords
    /\ recordUsageEffect(usage, outcome)
    /\ lastOp' = Op("recordUsage", ~recordUsageThrows(usage))
    /\ UNCHANGED << config, defaultUserId, activeTracking, now, observed, calc, mcpResult, exchangeRate, calls >>

\* clearUserUsage clearing both maps instead of deleting one key.
clearUserUsage_All(userId, outcome) ==
    LET history == EmptyMap
        totals == EmptyMap
    IN  /\ usageHistory' = history
        /\ userTotals' = totals
        /\ saveToStorage(history, totals, outcome)
        /\ lastOp' = Op("clearUserUsage", userId \in DOMAIN usageHistory)
        /\ UNCHANGED << config, defaultUserId, activeTracking, now, observed, calc, mcpResult, exchangeRate, calls >>

\* clearUserUsage(userId); lastOp.ok is what usageHistory.delete returned.
clearUserUsage(userId, outcome) ==
    LET history == MapDelete(usageHistory, userId)
        totals == MapDelete(userTotals, userId)
    IN  /\ usageHistory' = history
        /\ userTotals' = totals
        /\ saveToStorage(history, totals, outcome)
        /\ lastOp' = Op("clearUserUsage", userId \in DOMAIN usageHistory)
        /\ UNCHANGED << config, defaultUserId, activeTracking, now, observed, calc, mcpResult, exchangeRate, calls >>

\* clearAllStorage(): false without storage; otherwise both maps are cleared
\* and FileStorage.clear unlinks the file, or fails and leaves it.
clearAllStorage(unlinked) ==
    IF ~config.enableFileStorage
    THEN /\ lastOp' = Op("clearAllStorage", FALSE)
         /\ UNCHANGED << config, defaultUserId, usageHistory, userTotals,
                         activeTracking, file, now, saveFailed, observed, calc, mcpResult, exchangeRate, calls >>
    ELSE /\ usageHistory' = EmptyMap
         /\ userTotals' = EmptyMap
         /\ file' = IF unlinked THEN Absent ELSE file
         /\ saveFailed' = ~unlinked
         /\ lastOp' = Op("clearAllStorage", unlinked)
         /\ UNCHANGED << config, defaultUserId, activeTracking, now, observed, calc, mcpResult, exchangeRate, calls >>

\* A usage as another tracker's export holds it.
ImportedUsage ==
    [provider |-> "openai", model |-> "gpt-4", totalTokens |-> 10,
     inputTokens |-> 10, outputTokens |-> 0, cost |-> Cost(3000000, "USD"),
     timestamp |-> 0, userId |-> "u1", sessionId |-> undefinedStr,
     metadata |-> [duration |-> 0]]

\* The {history, totals} pairs importUsageData is called with: empty maps,
\* the export of a tracker that recorded ImportedUsage, and a history
\* handed over without its totals.
ImportPayloads ==
    LET history == PushHistory(EmptyMap, "u1", ImportedUsage)
        totals == updateUserTotals(EmptyMap, [currency |-> "USD"], "u1",
                                   ImportedUsage, 0)
    IN  { [history |-> EmptyMap, totals |-> EmptyMap],
          [history |-> history, totals |-> totals],
          [history |-> history, totals |-> EmptyMap] }

\* importUsageData(data)
importUsageData(data) ==
    /\ usageHistory' = data.history
    /\ userTotals' = data.totals
    /\ lastOp' = Op("importUsageData", TRUE)
    /\ UNCHANGED << config, defaultUserId, activeTracking, file, now,
                    saveFailed, observed, calc, mcpResult, exchangeRate, calls >>

Next ==
    \/ Restart
    \/ Tick
    \/ \E args \in StartArgs, suffix \in RandomSuffixes :
          startTracking(args.userId, args.sessionId, suffix) /\ UNCHANGED << observed, calls >>
    \/ \E trackingId \in TrackingIds, usage \in UsageInputs :
          \E outcome \in EndOutcomes(trackingId) :
             endTracking(trackingId, usage, outcome) /\ UNCHANGED << observed, calls >>
    \/ \E usage \in RecordInputs(now), outcome \in OutcomesOf(config) :
          recordUsage(usage, outcome)
    \/ \E userId \in UserIds \cup {"anonymous"}, outcome \in OutcomesOf(config) :
          clearUserUsage(userId, outcome)
    \/ \E unlinked \in BOOLEAN : clearAllStorage(unlinked)
    \/ \E data \in ImportPayloads : importUsageData(data)

Spec == Init /\ [][Next]_vars

(***************************************************************************)
(* The session manager alone, with an observer that remembers the ids      *)
(* startTracking has returned and the ids endTracking has completed.       *)
(***************************************************************************)
StartObserved(suffix) ==
    observed' = [observed EXCEPT !.issued = @ \cup {TrackingId(now, suffix)}]

EndObserved(trackingId) ==
    observed' = IF trackingId \in DOMAIN activeTracking
                THEN [observed EXCEPT !.ended = @ \cup {trackingId}]
                ELSE observed

NextSession ==
    \/ Tick
    \/ \E args \in StartArgs, suffix \in RandomSuffixes :
          startTracking(args.userId, args.sessionId, suffix) /\ StartObserved(suffix) /\ UNCHANGED calls
    \/ \E trackingId \in TrackingIds, usage \in UsageInputs :
          \E outcome \in EndOutcomes(trackingId) :
             endTracking(trackingId, usage, outcome) /\ EndObserved(trackingId) /\ UNCHANGED calls

SpecSession == Init /\ [][NextSession]_vars

(***************************************************************************)
(* Recording alone: startTracking, endTracking and recordUsage.            *)
(***************************************************************************)
NextRecord ==
    \/ Tick
    \/ \E args \in StartArgs, suffix \in RandomSuffixes :
          startTracking(args.userId, args.sessionId, suffix) /\ UNCHANGED << observed, calls >>
    \/ \E trackingId \in TrackingIds, usage \in UsageInputs :
          \E outcome \in EndOutcomes(trackingId) :
             endTracking(trackingId, usage, outcome) /\ UNCHANGED << observed, calls >>
    \/ \E usage \in RecordInputs(now), outcome \in OutcomesOf(config) :
          recordUsage(usage, outcome)

SpecRecord == Init /\ [][NextRecord]_vars

(***************************************************************************)
(* A tracker that records and clears, and the restarts of its process.     *)
(***************************************************************************)
NextPersist ==
    \/ Tick
    \/ \E args \in StartArgs, suffix \in RandomSuffixes :
          startTracking(args.userId, args.sessionId, suffix) /\ UNCHANGED << observed, calls >>
    \/ \E trackingId \in TrackingIds, usage \in UsageInputs :
          \E outcome \in EndOutcomes(trackingId) :
             endTracking(trackingId, usage, outcome) /\ UNCHANGED << observed, calls >>
    \/ \E usage \in RecordInputs(now), outcome \in OutcomesOf(config) :
          recordUsage(usage, outcome)
    \/ \E userId \in UserIds \cup {"anonymous"}, outcome \in OutcomesOf(config) :
          clearUserUsage(userId, outcome)
    \/ Restart

SpecPersist == Init /\ [][NextPersist]_vars

(***************************************************************************)
(* The calculator alone: calls of calculateCost over bounded arguments.    *)
(***************************************************************************)
Providers == {"openai", "anthropic", "gemini", "mistral"}

Range(seq) == {seq[i] : i \in 1..Len(seq)}

\* Model names: the table's keys, the candidates, and names the table lacks.
ModelNames ==
    (DOMAIN PRICING_openai) \cup (DOMAIN PRICING_anthropic)
      \cup (DOMAIN PRICING_gemini)
      \cup Range(gptModels) \cup Range(claudeModels) \cup Range(geminiModels)
      \cup {"unknown", "", "dall-e", "dall-e-9", "whisper-2", "tts-9",
            "gpt-4o-2024-08-06", "claude-3-5-sonnet-latest", "gemini-pro",
            "gemini-2.5-pro", "ft:gpt-3.5-turbo:org"}

callCalculateCost(provider, model, inputTokens, outputTokens) ==
    /\ calc.pc = "idle"
    /\ calc' = [pc |-> "called", provider |-> provider, model |-> model,
                inputTokens |-> inputTokens, outputTokens |-> outputTokens]
    /\ UNCHANGED << config, defaultUserId, usageHistory, userTotals,
                    activeTracking, file, now, saveFailed, lastOp, observed, mcpResult, exchangeRate, calls >>

returnCalculateCost ==
    /\ calc.pc = "called"
    /\ calc' = [calc EXCEPT !.pc = "returned"] @@
               [amount |-> calculateCost(calc.provider, calc.model,
                                         calc.inputTokens, calc.outputTokens),
                warned |-> warnsUnknownProvider(calc.provider)]
    /\ UNCHANGED << config, defaultUserId, usageHistory, userTotals,
                    activeTracking, file, now, saveFailed, lastOp, observed, mcpResult, exchangeRate, calls >>

NextPricing ==
    \/ \E provider \in Providers, model \in ModelNames,
          inputTokens \in 0..MaxUnits, outputTokens \in 0..MaxUnits :
          callCalculateCost(provider, model, inputTokens, outputTokens)
    \/ returnCalculateCost

InitPricing ==
    /\ Init
    /\ config = [currency |-> "USD", enableFileStorage |-> TRUE]

SpecPricing == InitPricing /\ [][NextPricing]_vars

(***************************************************************************)
(* Read queries of the tracker.                                            *)
(***************************************************************************)
\* getUserUsage(userId)
getUserUsage(userId) == MapGet(userTotals, userId, null)

\* Array.prototype.slice(-limit) for limit >= 0; -0 is 0, the whole array.
SliceLast(array, limit) ==
    IF limit = 0 \/ limit >= Len(array) THEN array
    ELSE SubSeq(array, Len(array) - limit + 1, Len(array))

\* getUserHistory(userId, limit)
getUserHistory(userId, limit) ==
    SliceLast(MapGet(usageHistory, userId, << >>), limit)

\* The default of getUserHistory's limit.
DefaultLimit == 100

(***************************************************************************)
(* Folds over a history, for the properties.                               *)
(***************************************************************************)
RECURSIVE SumTokens(_)
SumTokens(history) ==
    IF history = << >> THEN 0
    ELSE history[1].totalTokens + SumTokens(Tail(history))

RECURSIVE SumCost(_)
SumCost(history) ==
    IF history = << >> THEN 0
    ELSE history[1].cost.amount + SumCost(Tail(history))

\* The records of a history filed under a model key.
OfModel(history, modelKey) ==
    SelectSeq(history, LAMBDA usage : ModelKey(usage) = modelKey)

RECURSIVE SumByModelTokens(_)
SumByModelTokens(usageByModel) ==
    IF DOMAIN usageByModel = {} THEN 0
    ELSE LET k == CHOOSE x \in DOMAIN usageByModel : TRUE
         IN  usageByModel[k].tokens + SumByModelTokens(MapDelete(usageByModel, k))

AllUsers == UserIds \cup {"anonymous"}

(***************************************************************************)
(* C1.  After any sequence of recordUsage / endTracking calls, for every   *)
(* user with a history getUserUsage(userId).totalTokens equals the sum of  *)
(* totalTokens over the records of the user's history, and equals the sum  *)
(* of usageByModel[k].tokens over all model keys k.                        *)
(***************************************************************************)
C1_TotalTokensIsSum ==
    \A userId \in DOMAIN usageHistory :
        /\ getUserUsage(userId) # null
        /\ getUserUsage(userId).totalTokens = SumTokens(usageHistory[userId])
        /\ getUserUsage(userId).totalTokens =
              SumByModelTokens(getUserUsage(userId).usageByModel)

\* A user with two records under two model keys, one of them carrying a
\* totalTokens that is not inputTokens + outputTokens.
C1_Witness ==
    \E userId \in DOMAIN usageHistory :
        /\ Len(usageHistory[userId]) >= 2
        /\ userId \in DOMAIN userTotals
        /\ Cardinality(DOMAIN userTotals[userId].usageByModel) >= 2
        /\ \E i \in 1..Len(usageHistory[userId]) :
              LET usage == usageHistory[userId][i]
              IN  /\ usage.inputTokens # undefinedNum
                  /\ usage.totalTokens # usage.inputTokens + usage.outputTokens

(***************************************************************************)
(* C2.  In every reachable state each user's aggregate is the fold of the  *)
(* user's history: totalCost is the sum of the records' cost.amount, the   *)
(* breakdown has exactly the model keys of the history and under each key  *)
(* the sums of tokens and cost of the records with that provider and       *)
(* model; a user has an aggregate if and only if the user has a history.   *)
(***************************************************************************)
C2_AggregateIsFold ==
    /\ DOMAIN userTotals = DOMAIN usageHistory
    /\ \A userId \in (DOMAIN usageHistory) \cap (DOMAIN userTotals) :
          LET history == usageHistory[userId]
              total == userTotals[userId]
          IN  /\ total.totalCost = SumCost(history)
              /\ DOMAIN total.usageByModel =
                    {ModelKey(history[i]) : i \in 1..Len(history)}
              /\ \A k \in DOMAIN total.usageByModel :
                    /\ total.usageByModel[k].tokens = SumTokens(OfModel(history, k))
                    /\ total.usageByModel[k].cost = SumCost(OfModel(history, k))

(***************************************************************************)
(* C3.  A tracking id is completed at most once: endTracking with an id    *)
(* that an earlier endTracking has completed, or that startTracking never  *)
(* returned, fails (not found) and records nothing.                        *)
(***************************************************************************)
C3_AtMostOnce ==
    [][\A trackingId \in TrackingIds, usage \in UsageInputs :
         \A outcome \in EndOutcomes(trackingId) :
            (/\ endTracking(trackingId, usage, outcome)
             /\ \/ trackingId \in observed.ended
                \/ trackingId \notin observed.issued)
            => (/\ lastOp'.ok = FALSE
                /\ usageHistory' = usageHistory
                /\ userTotals' = userTotals)]_vars

(***************************************************************************)
(* C4.  endTracking with provider 'openai', model 'gpt-3.5-turbo', explicit*)
(* inputTokens i and outputTokens o and no explicit cost, under currency   *)
(* USD, records the cost (i/1000)*0.0005 + (o/1000)*0.0015 USD, that is    *)
(* i*5000 + o*15000 in 1e-10 USD; for i = 100, o = 50 this is 0.000125     *)
(* (1250000).                                                              *)
(***************************************************************************)
\* The record the call appended: the last of the history it is filed under.
LastRecorded(history, userId) == history[userId][Len(history[userId])]

C4_Case(trackingId, usage) ==
    /\ trackingId \in DOMAIN activeTracking
    /\ config.currency = "USD"
    /\ usage.provider = "openai"
    /\ usage.model = "gpt-3.5-turbo"
    /\ usage.inputTokens # undefinedNum
    /\ usage.outputTokens # undefinedNum
    /\ usage.cost = undefinedObj

C4_RecordedCost ==
    [][\A trackingId \in TrackingIds, usage \in UsageInputs :
         \A outcome \in EndOutcomes(trackingId) :
            (endTracking(trackingId, usage, outcome) /\ C4_Case(trackingId, usage))
            => LET userId == OrStr(activeTracking[trackingId].userId, "anonymous")
                   recorded == LastRecorded(usageHistory', userId)
               IN  /\ recorded.cost =
                         Cost(usage.inputTokens * 5000 + usage.outputTokens * 15000,
                              "USD")
                   /\ (usage.inputTokens = 100 /\ usage.outputTokens = 50)
                         => recorded.cost.amount = 1250000]_vars

\* The claim as stated: 100 input and 50 output tokens cost 0.0001125 USD.
C4_Original ==
    [][\A trackingId \in TrackingIds, usage \in UsageInputs :
         \A outcome \in EndOutcomes(trackingId) :
            (/\ endTracking(trackingId, usage, outcome)
             /\ C4_Case(trackingId, usage)
             /\ usage.inputTokens = 100
             /\ usage.outputTokens = 50)
            => LET userId == OrStr(activeTracking[trackingId].userId, "anonymous")
               IN  LastRecorded(usageHistory', userId).cost.amount = 1125000]_vars

\* endTracking has just recorded 100 / 50 tokens of gpt-3.5-turbo in USD.
C4_Witness ==
    /\ lastOp = Op("endTracking", TRUE)
    /\ config.currency = "USD"
    /\ \E userId \in DOMAIN usageHistory :
          LET recorded == LastRecorded(usageHistory, userId)
          IN  /\ recorded.provider = "openai"
              /\ recorded.model = "gpt-3.5-turbo"
              /\ recorded.inputTokens = 100
              /\ recorded.outputTokens = 50
              /\ recorded.cost.currency = "USD"

(***************************************************************************)
(* C5.  clearUserUsage(u) removes u's history and aggregate: afterwards    *)
(* getUserUsage(u) is null and getUserHistory(u) is empty; the history and *)
(* the aggregate of every other user are unchanged.                        *)
(***************************************************************************)
C5_ClearOneUser ==
    [][\A userId \in AllUsers, outcome \in OutcomesOf(config) :
         clearUserUsage(userId, outcome)
         => /\ getUserUsage(userId)' = null
            /\ getUserHistory(userId, DefaultLimit)' = << >>
            /\ \A other \in AllUsers \ {userId} :
                  /\ getUserUsage(other)' = getUserUsage(other)
                  /\ getUserHistory(other, DefaultLimit)' =
                        getUserHistory(other, DefaultLimit)
                  /\ (other \in DOMAIN usageHistory') = (other \in DOMAIN usageHistory)]_vars

\* A clear has just removed a user while another user keeps a history.
C5_Witness ==
    /\ lastOp = Op("clearUserUsage", TRUE)
    /\ \E other \in DOMAIN usageHistory :
          /\ usageHistory[other] # << >>
          /\ other \in DOMAIN userTotals

C7_SurvivesRestart ==
    [][(Restart /\ config.enableFileStorage /\ ~saveFailed)
       => (usageHistory' = usageHistory /\ userTotals' = userTotals)]_vars

\* A tracker that has just been constructed holds a loaded history.
C7_Witness ==
    /\ lastOp = Op("constructor", TRUE)
    /\ config.enableFileStorage
    /\ \E userId \in DOMAIN usageHistory : Len(usageHistory[userId]) >= 1
    /\ DOMAIN userTotals = DOMAIN usageHistory

(***************************************************************************)
(* C8.  Write-through persistence: after every operation that mutates the  *)
(* aggregator state (recordUsage, endTracking, clearUserUsage,             *)
(* importUsageData, clearAllStorage), with storage enabled and no I/O      *)
(* failure, the persisted snapshot equals the histories and totals in      *)
(* memory.                                                                 *)
(***************************************************************************)
MutatingOps == {"recordUsage", "endTracking", "clearUserUsage",
                "importUsageData", "clearAllStorage"}

C8_WriteThrough ==
    (/\ lastOp.name \in MutatingOps
     /\ lastOp.name \in {"endTracking", "clearAllStorage"} => lastOp.ok
     /\ config.enableFileStorage
     /\ ~saveFailed)
    => /\ constructed(config, file).usageHistory = usageHistory
       /\ constructed(config, file).userTotals = userTotals

(***************************************************************************)
(* C9.  For each known provider, calculateCost with a model name that      *)
(* contains no canonical identifier of the provider and, for openai, is    *)
(* not priced by a special unit (dall-e..., whisper-1, tts-1, tts-1-hd)    *)
(* returns the price at the provider's default model: gpt-3.5-turbo,       *)
(* claude-3-sonnet-20240229, gemini-1.5-flash.                             *)
(***************************************************************************)
Candidates(provider) ==
    CASE provider = "openai" -> Range(gptModels)
      [] provider = "anthropic" -> Range(claudeModels)
      [] provider = "gemini" -> Range(geminiModels)
      [] OTHER -> {}

ContainsCanonical(provider, model) ==
    \E candidate \in Candidates(provider) :
        Includes(normalizeModelName(model), candidate)

DefaultRate(provider) ==
    CASE provider = "openai" -> PRICING_openai["gpt-3.5-turbo"]
      [] provider = "anthropic" -> PRICING_anthropic["claude-3-sonnet-20240229"]
      [] provider = "gemini" -> PRICING_gemini["gemini-1.5-flash"]

SpecialUnit(provider, model) ==
    /\ provider = "openai"
    /\ \/ StartsWith(normalizeModelName(model), "dall-e")
       \/ normalizeModelName(model) \in {"whisper-1", "tts-1", "tts-1-hd"}

C9_Unrecognized ==
    /\ calc.pc = "returned"
    /\ calc.provider \in {"openai", "anthropic", "gemini"}
    /\ ~ContainsCanonical(calc.provider, calc.model)

C9_DefaultFallback ==
    (C9_Unrecognized /\ ~SpecialUnit(calc.provider, calc.model))
    => calc.amount = TokenCost(DefaultRate(calc.provider),
                               calc.inputTokens, calc.outputTokens)

\* The claim as stated: every name without a canonical identifier.
C9_Original ==
    C9_Unrecognized
    => calc.amount = TokenCost(DefaultRate(calc.provider),
                               calc.inputTokens, calc.outputTokens)

\* An openai name with the tts- prefix that the table lacks was priced.
C9_Witness ==
    /\ calc.pc = "returned"
    /\ calc.provider = "openai"
    /\ calc.model = "tts-9"
    /\ calc.inputTokens > 0
    /\ calc.outputTokens > 0

(***************************************************************************)
(* C10.  Every canonical identifier m of a provider's candidate list is    *)
(* priced at its own rates: calculateCost(provider, m, i, o) =             *)
(* (i/1000)*rate(m).input + (o/1000)*rate(m).output.                       *)
(***************************************************************************)
OwnRate(provider, candidate) ==
    CASE provider = "openai" -> PRICING_openai[gptPricingKey(candidate)]
      [] provider = "anthropic" -> PRICING_anthropic[claudePricingKey(candidate)]
      [] provider = "gemini" -> PRICING_gemini[geminiPricingKey(candidate)]

C10_OwnRates ==
    (/\ calc.pc = "returned"
     /\ normalizeModelName(calc.model) \in Candidates(calc.provider))
    => calc.amount = TokenCost(OwnRate(calc.provider, normalizeModelName(calc.model)),
                               calc.inputTokens, calc.outputTokens)

(***************************************************************************)
(* The MCP server's compare_costs tool.  Its tracker is constructed with   *)
(* currency USD; the tool meters each model under the user '_compare'.     *)
(***************************************************************************)
\* The models array of compareCosts.
CompareModels ==
    << [provider |-> "openai", model |-> "gpt-3.5-turbo", name |-> "GPT-3.5"],
       [provider |-> "openai", model |-> "gpt-4", name |-> "GPT-4"],
       [provider |-> "anthropic", model |-> "claude-3-haiku-20240307",
        name |-> "Claude Haiku"],
       [provider |-> "anthropic", model |-> "claude-3-sonnet-20240229",
        name |-> "Claude Sonnet"],
       [provider |-> "anthropic", model |-> "claude-3-opus-20240229",
        name |-> "Claude Opus"] >>

\* The one element of a one-element set: in TheOnly({ e(x) : x \in {v} }) the
\* value v is computed once, whatever the number of places e uses it at.
TheOnly(S) == CHOOSE x \in S : TRUE

\* The token counts compare_costs is called with.
CompareTokens == {0, 3, 1000}

\* One iteration of the map callback on the maps it finds: startTracking,
\* endTracking, getUserUsage, the cost read from the breakdown,
\* clearUserUsage.
compareOne(history, totals, entry, tokens) ==
    LET tracking == [userId |-> OrStr("_compare", defaultUserId),
                     sessionId |-> undefinedStr, startTime |-> now]
        usage == PartialUsage(entry.provider, entry.model, tokens,
                              tokens \div 2, tokens - (tokens \div 2),
                              undefinedObj, undefinedObj)
        result(fullUsage, recorded) ==
            LET byModel == MapGet(recorded["_compare"].usageByModel,
                                  ModelKey(fullUsage), [tokens |-> 0, cost |-> 0])
            IN  [history |-> MapDelete(PushHistory(history, "_compare", fullUsage),
                                       "_compare"),
                 totals |-> MapDelete(recorded, "_compare"),
                 item |-> [name |-> entry.name, cost |-> OrNum(byModel.cost, 0)]]
    IN  TheOnly({ result(fullUsage,
                         updateUserTotals(totals, config, "_compare", fullUsage, now)) :
                     fullUsage \in {FullUsage(config, tracking, usage, now)} })

\* models.map(...): the items in the order of the models, and the maps the
\* last iteration leaves.
RECURSIVE compareMap(_, _, _, _)
compareMap(i, history, totals, tokens) ==
    IF i > Len(CompareModels)
    THEN [history |-> history, totals |-> totals, items |-> << >>]
    ELSE LET rest(one) == compareMap(i + 1, one.history, one.totals, tokens)
         IN  TheOnly({ [rest(one) EXCEPT !.items = << one.item >> \o @] :
                          one \in {compareOne(history, totals, CompareModels[i],
                                              tokens)} })

\* One item inserted into a sorted array behind the items that cost no more.
RECURSIVE InsertByCost(_, _)
InsertByCost(sorted, item) ==
    IF sorted = << >> THEN << item >>
    ELSE IF item.cost < sorted[1].cost THEN << item >> \o sorted
    ELSE << sorted[1] >> \o InsertByCost(Tail(sorted), item)

\* The items inserted one after another, in their order.
RECURSIVE InsertAll(_, _)
InsertAll(sorted, items) ==
    IF items = << >> THEN sorted
    ELSE InsertAll(InsertByCost(sorted, items[1]), Tail(items))

\* The items as they come.
SortByCost_Unsorted(items) == items

\* .sort((a, b) => a.cost - b.cost): a stable sort.
SortByCost(items) == InsertAll(<< >>, items)

\* compare_costs with {tokens}: suffixes are the random suffixes of the ids
\* the five startTracking calls draw, outcome that of the last save.
compareCosts(tokens, suffixes, outcome) ==
    LET ids == {TrackingId(now, suffix) : suffix \in suffixes}
    IN  \E mapped \in {compareMap(1, usageHistory, userTotals, tokens)} :
        /\ usageHistory' = mapped.history
        /\ userTotals' = mapped.totals
        /\ saveToStorage(mapped.history, mapped.totals, outcome)
        /\ activeTracking' = [id \in (DOMAIN activeTracking) \ ids |->
                                activeTracking[id]]
        /\ lastOp' = Op("compare_costs", TRUE)
        /\ mcpResult' = [tool |-> "compare_costs", tokens |-> tokens,
                         comparison |-> SortByCost(mapped.items)]
        /\ UNCHANGED << config, defaultUserId, now, observed, calc, exchangeRate, calls >>

\* A usage recorded for a user who is named '_compare'.
CompareRecordInputs(time) ==
    { [provider |-> "openai", model |-> "gpt-3.5-turbo", totalTokens |-> 150,
       inputTokens |-> 100, outputTokens |-> 50, cost |-> Cost(1250000, "USD"),
       timestamp |-> time, userId |-> "_compare", sessionId |-> undefinedStr,
       metadata |-> undefinedObj] }

SuffixChoices == (SUBSET RandomSuffixes) \ {{}}

NextCompare ==
    \/ Tick
    \/ \E usage \in RecordInputs(now) \cup CompareRecordInputs(now),
          outcome \in OutcomesOf(config) :
          recordUsage(usage, outcome)
    \/ \E tokens \in CompareTokens, suffixes \in SuffixChoices,
          outcome \in OutcomesOf(config) :
          compareCosts(tokens, suffixes, outcome)

\* new TokenTracker({ currency: 'USD' })
InitCompare ==
    /\ Init
    /\ config = [currency |-> "USD", enableFileStorage |-> TRUE]

SpecCompare == InitCompare /\ [][NextCompare]_vars

(***************************************************************************)
(* C11.  compare_costs for a token count over its five models produces a   *)
(* list of the five in non-decreasing cost order; the costs are not all    *)
(* distinct: for 1000 tokens (500 input, 500 output) GPT-4 and Claude Opus *)
(* both cost 0.045 USD and are listed in the order of the models array.    *)
(***************************************************************************)
PositionOf(comparison, name) ==
    CHOOSE i \in 1..Len(comparison) : comparison[i].name = name

C11_SortedWithTie ==
    mcpResult.tool = "compare_costs"
    => LET comparison == mcpResult.comparison
       IN  /\ Len(comparison) = Len(CompareModels)
           /\ {comparison[i].name : i \in 1..Len(comparison)} =
                 {CompareModels[i].name : i \in 1..Len(CompareModels)}
           /\ \A i, j \in 1..Len(comparison) :
                 i < j => comparison[i].cost <= comparison[j].cost
           /\ mcpResult.tokens = 1000
                 => /\ comparison[PositionOf(comparison, "GPT-4")].cost = 450000000
                    /\ comparison[PositionOf(comparison, "Claude Opus")].cost
                          = 450000000
                    /\ PositionOf(comparison, "GPT-4") <
                          PositionOf(comparison, "Claude Opus")

\* The claim as stated: strictly increasing costs for a positive count.
C11_Original ==
    (mcpResult.tool = "compare_costs" /\ mcpResult.tokens > 0)
    => LET comparison == mcpResult.comparison
       IN  \A i, j \in 1..Len(comparison) :
              i < j => comparison[i].cost < comparison[j].cost

\* compare_costs has answered for 1000 tokens.
C11_Witness ==
    /\ lastOp = Op("compare_costs", TRUE)
    /\ mcpResult.tool = "compare_costs"
    /\ mcpResult.tokens = 1000
    /\ Len(mcpResult.comparison) = 5
    /\ mcpResult.comparison[1].name = "Claude Haiku"

(***************************************************************************)
(* C12.  For provider 'gemini' and the free experimental models            *)
(* gemini-2.0-flash-exp and gemini-2.0-flash-thinking-exp-1219, in dotted  *)
(* or dashed spelling, calculateCost returns 0 for every token count.      *)
(***************************************************************************)
FreeGeminiModels ==
    {"gemini-2-0-flash-exp", "gemini-2-0-flash-thinking-exp-1219"}

C12_FreeModelsCostNothing ==
    (/\ calc.pc = "returned"
     /\ calc.provider = "gemini"
     /\ normalizeModelName(calc.model) \in FreeGeminiModels)
    => calc.amount = 0

\* A dotted free model was priced for nonzero input and output.
C12_Witness ==
    /\ calc.pc = "returned"
    /\ calc.provider = "gemini"
    /\ calc.model = "gemini-2.0-flash-thinking-exp-1219"
    /\ calc.inputTokens > 0
    /\ calc.outputTokens > 0
    /\ calc.amount = 0

C14_UnknownProviderFlat ==
    (/\ calc.pc = "returned"
     /\ calc.provider \notin {"openai", "anthropic", "gemini"})
    => /\ calc.warned
       /\ calc.amount = (calc.inputTokens + calc.outputTokens) * 10000000

\* An unknown provider was priced for a model of the table, with output.
C14_Witness ==
    /\ calc.pc = "returned"
    /\ calc.provider = "mistral"
    /\ calc.model = "gpt-4"
    /\ calc.outputTokens > 0
    /\ calc.warned

(***************************************************************************)
(* C15.  For every provider, every model and all inputUnits >= 0 and       *)
(* outputUnits >= 0, calculateCost returns an amount >= 0 that is          *)
(* non-decreasing in inputUnits and in outputUnits.                        *)
(***************************************************************************)
C15_NonNegativeMonotone ==
    calc.pc = "returned"
    => /\ calc.amount >= 0
       /\ calc.inputTokens > 0
             => calc.amount >= calculateCost(calc.provider, calc.model,
                                             calc.inputTokens - 1,
                                             calc.outputTokens)
       /\ calc.outputTokens > 0
             => calc.amount >= calculateCost(calc.provider, calc.model,
                                             calc.inputTokens,
                                             calc.outputTokens - 1)

\* A per-token model was priced with more output than input.
C15_Witness ==
    /\ calc.pc = "returned"
    /\ calc.provider = "anthropic"
    /\ calc.model = "claude-3-opus-20240229"
    /\ calc.inputTokens > 0
    /\ calc.outputTokens > calc.inputTokens
    /\ calc.amount > 0

(***************************************************************************)
(* A tracker beside an exchange rate manager: sessions under either        *)
(* currency while getUSDtoKRW is called.                                   *)
(***************************************************************************)
\* getUSDtoKRW()
getUSDtoKRW(fetched, written) ==
    /\ exchangeRate' =
          [exchangeRate EXCEPT
             !.cache = cacheAfterGetUSDtoKRW(exchangeRate, now, fetched, written),
             !.returned = rateOfGetUSDtoKRW(exchangeRate, now, fetched)]
    /\ UNCHANGED << config, defaultUserId, usageHistory, userTotals,
                    activeTracking, file, now, saveFailed, lastOp, observed,
                    calc, mcpResult, calls >>

\* The expiries a manager is constructed with.
ExpiryHours == {0, DefaultExpiryHours}

NextCurrency ==
    \/ Tick
    \/ \E args \in StartArgs, suffix \in RandomSuffixes :
          startTracking(args.userId, args.sessionId, suffix) /\ UNCHANGED << observed, calls >>
    \/ \E trackingId \in TrackingIds, usage \in UsageInputs :
          \E outcome \in EndOutcomes(trackingId) :
             endTracking(trackingId, usage, outcome) /\ UNCHANGED << observed, calls >>
    \/ \E fetched \in FetchOutcomes, written \in BOOLEAN :
          getUSDtoKRW(fetched, written)

InitCurrency ==
    /\ InitTracker
    /\ \E cacheExpiryHours \in ExpiryHours :
          exchangeRate = ExchangeRateManager(cacheExpiryHours)

SpecCurrency == InitCurrency /\ [][NextCurrency]_vars

(***************************************************************************)
(* C16.  Under currency KRW the cost endTracking records, when none is     *)
(* supplied, is the calculator's USD amount multiplied by the rate the     *)
(* exchange rate manager gives (cached, fetched or fallback), with         *)
(* currency 'KRW'.                                                         *)
(***************************************************************************)
C16_ProviderRate ==
    [][\A trackingId \in TrackingIds, usage \in UsageInputs :
         \A outcome \in EndOutcomes(trackingId) :
            (/\ endTracking(trackingId, usage, outcome)
             /\ trackingId \in DOMAIN activeTracking
             /\ config.currency = "KRW"
             /\ usage.cost = undefinedObj)
            => LET userId == OrStr(activeTracking[trackingId].userId, "anonymous")
                   recorded == LastRecorded(usageHistory', userId)
                   costUSD == calculateCost(recorded.provider, recorded.model,
                                            OrNum(usage.inputTokens, 0),
                                            OrNum(usage.outputTokens, 0))
               IN  /\ recorded.cost.currency = "KRW"
                   /\ \E fetched \in FetchOutcomes :
                         recorded.cost.amount =
                            (costUSD * rateOfGetUSDtoKRW(exchangeRate, now, fetched))
                               \div KRWUnit]_vars

(***************************************************************************)
(* Sessions ended with partial usages that supply some fields and leave    *)
(* others out.                                                             *)
(***************************************************************************)
\* Partial usages: a supplied totalTokens of 0 beside token counts; a
\* supplied totalTokens and cost with nothing else; token counts alone.
FillInputs ==
    { PartialUsage("anthropic", "claude-3-haiku-20240307", 0, 100, 50,
                   undefinedObj, undefinedObj),
      PartialUsage(undefinedStr, undefinedStr, 7, undefinedNum, undefinedNum,
                   Cost(5, "USD"), undefinedObj),
      PartialUsage("openai", "gpt-3.5-turbo", undefinedNum, 100, 50,
                   undefinedObj, undefinedObj) }

NextEnd ==
    \/ Tick
    \/ \E args \in StartArgs, suffix \in RandomSuffixes :
          startTracking(args.userId, args.sessionId, suffix) /\ UNCHANGED << observed, calls >>
    \/ \E trackingId \in TrackingIds, usage \in FillInputs :
          \E outcome \in EndOutcomes(trackingId) :
             endTracking(trackingId, usage, outcome) /\ UNCHANGED << observed, calls >>

SpecEnd == Init /\ [][NextEnd]_vars

(***************************************************************************)
(* C17.  endTracking fills in only the fields the caller left unspecified: *)
(* provider is 'openai' only when none is given; totalTokens is the        *)
(* supplied totalTokens whenever one is supplied (a supplied 0 included)   *)
(* and inputTokens + outputTokens only when it is unspecified; cost is the *)
(* supplied cost whenever one is supplied and the calculated cost          *)
(* otherwise; the record is appended to the user's history and the session *)
(* entry is deleted.                                                       *)
(***************************************************************************)
\* A count the caller left out counts as 0 in a sum.
Given(count) == IF count = undefinedNum THEN 0 ELSE count

C17_FillsOnlyUnspecified ==
    [][\A trackingId \in TrackingIds, usage \in FillInputs :
         \A outcome \in EndOutcomes(trackingId) :
            (/\ endTracking(trackingId, usage, outcome)
             /\ trackingId \in DOMAIN activeTracking)
            => LET userId == OrStr(activeTracking[trackingId].userId, "anonymous")
                   recorded == LastRecorded(usageHistory', userId)
               IN  /\ recorded.provider =
                         IF usage.provider = undefinedStr THEN "openai"
                         ELSE usage.provider
                   /\ recorded.totalTokens =
                         IF usage.totalTokens # undefinedNum THEN usage.totalTokens
                         ELSE Given(usage.inputTokens) + Given(usage.outputTokens)
                   /\ recorded.cost =
                         IF usage.cost # undefinedObj THEN usage.cost
                         ELSE TrackerCalculateCost(config, recorded.provider,
                                                   recorded.model,
                                                   Given(usage.inputTokens),
                                                   Given(usage.outputTokens))
                   /\ Len(usageHistory'[userId]) =
                         Len(MapGet(usageHistory, userId, << >>)) + 1
                   /\ trackingId \notin DOMAIN activeTracking']_vars

(***************************************************************************)
(* Recording with reads of the history in between.                         *)
(***************************************************************************)
\* The largest limit getUserHistory is called with.
MaxLimit == 3

\* getUserHistory(userId, limit) called: the tracker's fields are only read.
callGetUserHistory(userId, limit) ==
    /\ lastOp' = [name |-> "getUserHistory", ok |-> TRUE, userId |-> userId,
                  limit |-> limit, returned |-> getUserHistory(userId, limit)]
    /\ UNCHANGED << config, defaultUserId, usageHistory, userTotals,
                    activeTracking, file, now, saveFailed, observed, calc,
                    mcpResult, exchangeRate, calls >>

NextQuery ==
    \/ \E args \in StartArgs, suffix \in RandomSuffixes :
          startTracking(args.userId, args.sessionId, suffix) /\ UNCHANGED << observed, calls >>
    \/ \E trackingId \in TrackingIds, usage \in UsageInputs :
          \E outcome \in EndOutcomes(trackingId) :
             endTracking(trackingId, usage, outcome) /\ UNCHANGED << observed, calls >>
    \/ \E usage \in RecordInputs(now), outcome \in OutcomesOf(config) :
          recordUsage(usage, outcome)
    \/ \E userId \in AllUsers, limit \in 0..MaxLimit :
          callGetUserHistory(userId, limit)

SpecQuery == Init /\ [][NextQuery]_vars

(***************************************************************************)
(* C18.  getUserHistory(userId, limit) returns the last min(limit, n)      *)
(* records of the user's n-record history in insertion order, for every    *)
(* limit >= 0 including limit = 0 and limit > n; an unknown user yields    *)
(* the empty sequence.                                                     *)
(***************************************************************************)
Min(a, b) == IF a <= b THEN a ELSE b

C18_LastLimitRecords ==
    lastOp.name = "getUserHistory"
    => LET history == MapGet(usageHistory, lastOp.userId, << >>)
           n == Len(history)
       IN  /\ Len(lastOp.returned) = Min(lastOp.limit, n)
           /\ lastOp.returned =
                 SubSeq(history, n - Min(lastOp.limit, n) + 1, n)

(***************************************************************************)
(* The provider wrappers (OpenAIWrapper, AnthropicWrapper, GeminiWrapper). *)
(* A wrapped call is an async function: it runs to its await, and once the *)
(* provider's promise settles it runs to its return or throw.  A streaming *)
(* call returns an async generator whose body runs only as the consumer    *)
(* pulls it.  Several wrapped calls are in flight at once.                 *)
(***************************************************************************)
\* The most chunks a stream yields.
MaxChunks == 1

\* The arguments of the wrapped calls: the wrapper, args[0].model and
\* args[0].stream.
WrappedCalls ==
    { [wrapper |-> "openai", model |-> "gpt-3.5-turbo", stream |-> FALSE],
      [wrapper |-> "openai", model |-> undefinedStr, stream |-> TRUE],
      [wrapper |-> "anthropic", model |-> undefinedStr, stream |-> FALSE],
      [wrapper |-> "anthropic", model |-> "claude-3-haiku-20240307", stream |-> TRUE],
      [wrapper |-> "gemini", model |-> undefinedStr, stream |-> FALSE] }

\* The error the provider's client rejects with, and the one endTracking
\* throws for an id the map lacks.
ProviderError == "ProviderError"
TrackingNotFound == "Tracking ID not found"

\* The usage a provider reports in a response.
ResponseInputTokens == 100
ResponseOutputTokens == 50

\* The chunks a provider streams: the length of the text of an OpenAI delta
\* (0: no content); the events of an Anthropic stream.
OpenAIChunks == {[content |-> 0], [content |-> 5]}

AnthropicChunks ==
    { [type |-> "message_start", input_tokens |-> ResponseInputTokens],
      [type |-> "content_block_delta", text |-> 5],
      [type |-> "message_delta", output_tokens |-> 7] }

\* The chunks the stream of a call can yield: none unless it is streaming.
ChunksOf(call) ==
    IF call.pc # "streaming" THEN {}
    ELSE IF call.wrapper = "openai" THEN OpenAIChunks ELSE AnthropicChunks

\* Math.ceil(length / 4)
CeilQuarter(length) == (length + 3) \div 4

\* A wrapped call after its startTracking(): awaiting the provider.  (closed:
\* an endTracking of the call returned; ends: the calls of endTracking it made.)
Awaiting(args, trackingId) ==
    [pc |-> "awaiting", wrapper |-> args.wrapper, model |-> args.model,
     stream |-> args.stream, trackingId |-> trackingId,
     content |-> 0, inputTokens |-> 0, outputTokens |-> 0, chunks |-> 0,
     failed |-> FALSE, closed |-> FALSE, ends |-> 0, error |-> "none",
     tokenUsage |-> undefinedObj]

\* args[0]?.model || default (OpenAI, Anthropic); extractModel(args) (Gemini).
ModelOf(call) ==
    OrStr(call.model,
          CASE call.wrapper = "openai" -> "gpt-3.5-turbo"
            [] call.wrapper = "anthropic" -> "claude-3-sonnet-20240229"
            [] OTHER -> "gemini-1.5-pro")

\* The usage the try block ends the session with when the response arrived.
ResponseUsage(call) ==
    PartialUsage(call.wrapper, ModelOf(call),
                 ResponseInputTokens + ResponseOutputTokens,
                 ResponseInputTokens, ResponseOutputTokens,
                 undefinedObj, undefinedObj)

\* The usage the catch block ends the session with.
ErrorUsage(call) ==
    IF call.wrapper = "gemini"
    THEN PartialUsage("gemini", ModelOf(call), 0, 0, 0, undefinedObj,
                      [error |-> TRUE])
    ELSE PartialUsage(call.wrapper, OrStr(call.model, "unknown"), 0,
                      undefinedNum, undefinedNum, undefinedObj, [error |-> TRUE])

\* The accumulated token count of a stream: accumulatedTokens (OpenAI),
\* inputTokens + outputTokens (Anthropic).
Accumulated(call) ==
    IF call.wrapper = "openai" THEN CeilQuarter(call.content)
    ELSE call.inputTokens + call.outputTokens

\* The usage wrapStream ends the session with after the last chunk.
StreamUsage(call) ==
    IF call.wrapper = "openai"
    THEN PartialUsage("openai", ModelOf(call), Accumulated(call), undefinedNum,
                      CeilQuarter(call.content), undefinedObj, undefinedObj)
    ELSE PartialUsage("anthropic", ModelOf(call), Accumulated(call),
                      call.inputTokens, call.outputTokens, undefinedObj,
                      undefinedObj)

\* The usage wrapStream's catch block ends the session with: the usage object
\* as the try block left it, totalTokens and metadata replaced.
StreamErrorUsage(call) ==
    PartialUsage(call.wrapper, ModelOf(call), Accumulated(call), undefinedNum,
                 undefinedNum, undefinedObj, [error |-> TRUE])

\* The wrapper state after a chunk.
AfterChunk(call, chunk) ==
    IF call.wrapper = "openai"
    THEN [call EXCEPT !.content = @ + chunk.content, !.chunks = @ + 1]
    ELSE CASE chunk.type = "message_start" ->
                [call EXCEPT !.inputTokens = OrNum(chunk.input_tokens, 0),
                             !.chunks = @ + 1]
           [] chunk.type = "content_block_delta" ->
                IF chunk.text = 0 THEN [call EXCEPT !.chunks = @ + 1]
                ELSE [call EXCEPT !.content = @ + chunk.text,
                                  !.outputTokens = CeilQuarter(call.content + chunk.text),
                                  !.chunks = @ + 1]
           [] OTHER ->
                [call EXCEPT !.outputTokens = OrNum(chunk.output_tokens, @),
                             !.chunks = @ + 1]

\* The wrapped method is called: startTracking(), then the provider's method,
\* whose promise the call awaits.
wrapCall(c, args, suffix) ==
    /\ calls[c].pc = "idle"
    /\ IF c = 1 THEN TRUE ELSE calls[c - 1].pc # "idle"
    /\ startTracking(undefinedStr, undefinedStr, suffix)
    /\ calls' = [calls EXCEPT ![c] = Awaiting(args, TrackingId(now, suffix))]
    /\ UNCHANGED observed

\* The provider's promise resolves.  A streaming OpenAI or Anthropic call
\* returns the generator of wrapStream; every other call ends its session and
\* (OpenAI, Anthropic) sets _tokenUsage on the response, which throws for a
\* response that cannot be extended.  A throw in the try block reaches the
\* catch block, whose endTracking then finds no session and throws in turn.
providerResolves(c, frozen, outcome) ==
    LET call == calls[c]
        found == call.trackingId \in DOMAIN activeTracking
        throws == ~found \/ frozen
    IN  /\ call.pc = "awaiting"
        /\ IF call.stream /\ call.wrapper # "gemini"
           THEN /\ ~frozen
                /\ calls' = [calls EXCEPT ![c].pc = "streaming"]
                /\ UNCHANGED << config, defaultUserId, usageHistory, userTotals,
                                activeTracking, file, now, saveFailed, lastOp,
                                observed, calc, mcpResult, exchangeRate >>
           ELSE /\ frozen => call.wrapper # "gemini"
                /\ endTrackingEffect(call.trackingId, ResponseUsage(call), outcome)
                /\ lastOp' = Op("endTracking", ~throws)
                /\ calls' =
                      [calls EXCEPT ![c] =
                         [call EXCEPT
                            !.pc = IF throws THEN "raised" ELSE "returned",
                            !.closed = found,
                            !.ends = IF throws THEN 2 ELSE 1,
                            !.error = IF throws THEN TrackingNotFound ELSE "none",
                            !.tokenUsage =
                               IF throws \/ call.wrapper = "gemini" THEN undefinedObj
                               ELSE [tokens |-> ResponseInputTokens + ResponseOutputTokens,
                                     cost |-> LET usage == MapGet(userTotals',
                                                                  "anonymous", null)
                                              IN  IF usage = null THEN 0
                                                  ELSE OrNum(usage.totalCost, 0),
                                     model |-> ModelOf(call)]]]
                /\ UNCHANGED observed

\* The provider's promise rejects: the catch block ends the session with the
\* error usage and rethrows; its endTracking throws for an id the map lacks.
providerRejects(c, outcome) ==
    LET call == calls[c]
        found == call.trackingId \in DOMAIN activeTracking
    IN  /\ call.pc = "awaiting"
        /\ endTrackingEffect(call.trackingId, ErrorUsage(call), outcome)
        /\ lastOp' = Op("endTracking", found)
        /\ calls' = [calls EXCEPT ![c] =
                        [call EXCEPT
                           !.pc = "raised", !.failed = TRUE, !.closed = found,
                           !.ends = 1,
                           !.error = IF found THEN ProviderError
                                     ELSE TrackingNotFound]]
        /\ UNCHANGED observed

\* The consumer pulls the generator and the stream yields a chunk.
streamYields(c, chunk) ==
    /\ calls[c].pc = "streaming"
    /\ calls[c].chunks < MaxChunks
    /\ calls' = [calls EXCEPT ![c] = AfterChunk(calls[c], chunk)]
    /\ UNCHANGED << config, defaultUserId, usageHistory, userTotals,
                    activeTracking, file, now, saveFailed, lastOp, observed,
                    calc, mcpResult, exchangeRate >>

\* The consumer pulls the generator and the stream is exhausted: the session
\* is ended with the accumulated usage.
streamCompletes(c, outcome) ==
    LET call == calls[c]
        found == call.trackingId \in DOMAIN activeTracking
    IN  /\ call.pc = "streaming"
        /\ endTrackingEffect(call.trackingId, StreamUsage(call), outcome)
        /\ lastOp' = Op("endTracking", found)
        /\ calls' = [calls EXCEPT ![c] =
                        [call EXCEPT
                           !.pc = IF found THEN "done" ELSE "raised",
                           !.closed = found,
                           !.ends = IF found THEN 1 ELSE 2,
                           !.error = IF found THEN "none" ELSE TrackingNotFound]]
        /\ UNCHANGED observed

\* The consumer pulls the generator and the stream throws: the catch block
\* ends the session with the usage so far and rethrows.
streamThrows(c, outcome) ==
    LET call == calls[c]
        found == call.trackingId \in DOMAIN activeTracking
    IN  /\ call.pc = "streaming"
        /\ endTrackingEffect(call.trackingId, StreamErrorUsage(call), outcome)
        /\ lastOp' = Op("endTracking", found)
        /\ calls' = [calls EXCEPT ![c] =
                        [call EXCEPT
                           !.pc = "raised", !.failed = TRUE, !.closed = found,
                           !.ends = 1,
                           !.error = IF found THEN ProviderError
                                     ELSE TrackingNotFound]]
        /\ UNCHANGED observed

\* The consumer stops pulling: it never iterates the generator, or leaves its
\* loop (break, return, an exception of its own), which calls the generator's
\* return().  Neither the end of the try block nor the catch block runs.
streamAbandoned(c) ==
    /\ calls[c].pc = "streaming"
    /\ calls' = [calls EXCEPT ![c].pc = "abandoned"]
    /\ UNCHANGED << config, defaultUserId, usageHistory, userTotals,
                    activeTracking, file, now, saveFailed, lastOp, observed,
                    calc, mcpResult, exchangeRate >>

Calls == 1..MaxCalls

\* What the provider and the event loop do for call c.
settles(c) ==
    \/ \E frozen \in BOOLEAN, outcome \in OutcomesOf(config) :
          providerResolves(c, frozen, outcome)
    \/ \E outcome \in OutcomesOf(config) : providerRejects(c, outcome)
    \/ \E chunk \in ChunksOf(calls[c]) : streamYields(c, chunk)
    \/ \E outcome \in OutcomesOf(config) : streamCompletes(c, outcome)
    \/ \E outcome \in OutcomesOf(config) : streamThrows(c, outcome)

NextWrap ==
    \/ \E c \in Calls, args \in WrappedCalls, suffix \in RandomSuffixes :
          wrapCall(c, args, suffix)
    \/ \E c \in Calls : settles(c)
    \/ \E c \in Calls : streamAbandoned(c)

\* A tracker in memory only, as the wrappers' callers construct it.
WrapConfig == [currency |-> "USD", enableFileStorage |-> FALSE]

InitWrap ==
    /\ config = WrapConfig
    /\ defaultUserId = undefinedStr
    /\ file = Absent
    /\ usageHistory = EmptyMap
    /\ userTotals = EmptyMap
    /\ activeTracking = EmptyMap
    /\ now = 0
    /\ saveFailed = FALSE
    /\ lastOp = Op("constructor", TRUE)
    /\ observed = NothingObserved
    /\ calc = [pc |-> "idle"]
    /\ mcpResult = NoToolCall
    /\ calls = NoCalls
    /\ exchangeRate = ExchangeRateManager(DefaultExpiryHours)

SpecWrap == InitWrap /\ [][NextWrap]_vars

(***************************************************************************)
(* C19.  When the provider call of a wrapped call fails, the wrapper still *)
(* closes the tracking session: one usage record with metadata.error =     *)
(* true is recorded, the session entry is removed, and the caller receives *)
(* the provider's original error, never another one.                       *)
(***************************************************************************)
C19_ClosesAndReraises ==
    [][\A c \in Calls :
          (/\ calls[c].pc = "awaiting"
           /\ calls'[c].pc = "raised"
           /\ calls'[c].failed)
          => /\ calls'[c].error = ProviderError
             /\ calls[c].trackingId \notin DOMAIN activeTracking'
             /\ TotalRecords(usageHistory') = TotalRecords(usageHistory) + 1
             /\ LastRecorded(usageHistory', "anonymous").metadata["error"] = TRUE]_vars

(***************************************************************************)
(* The wrapped calls under the scheduling of the runtime: the request of a *)
(* call settles and the event loop runs what waits for it; a stream the    *)
(* consumer keeps pulling yields, ends or throws.  Nothing obliges the     *)
(* consumer to keep pulling.                                               *)
(***************************************************************************)
SpecWrapLive == SpecWrap /\ \A c \in Calls : WF_vars(settles(c))

(***************************************************************************)
(* C20.  Every tracking session a wrapper starts is eventually ended, its  *)
(* entry removed from the active sessions and a usage record recorded, in  *)
(* every execution: a non-streaming call when it returns or fails, a       *)
(* streaming call when its stream completes or errors.                     *)
(***************************************************************************)
C20_EventuallyEnded ==
    \A c \in Calls :
       (calls[c].pc = "awaiting") ~> (calls[c].pc # "idle" /\ calls[c].closed)


(***************************************************************************)
(* Storage failures.  The snapshot file may be replaced by a document      *)
(* another writer left at its path, and the storage directory may be       *)
(* impossible to create when a tracker is constructed.                     *)
(***************************************************************************)
\* Documents JSON.parse accepts that FileStorage.save did not write: one
\* without history, one without totals, one whose aggregate of u2 lacks
\* usageByModel.
ForeignDocuments ==
    { [totals |-> EmptyMap, lastSaved |-> toISOString(0)],
      [history |-> EmptyMap, lastSaved |-> toISOString(0)],
      [history |-> EmptyMap,
       totals |-> MapSet(EmptyMap, "u2",
                         [userId |-> "u2", totalTokens |-> 150, totalCost |-> 0,
                          currency |-> "USD", lastUsed |-> toISOString(0)]),
       lastSaved |-> toISOString(0)] }

\* Another writer leaves a document at the path of the snapshot.
fileReplaced(document) ==
    /\ config.enableFileStorage
    /\ file # document
    /\ file' = document
    /\ UNCHANGED << config, defaultUserId, usageHistory, userTotals, activeTracking,
                    now, saveFailed, lastOp, observed, calc, mcpResult,
                    exchangeRate, calls >>

\* new TokenTracker(config) while the storage directory does not exist and
\* cannot be created: fs.mkdirSync throws out of the FileStorage constructor
\* and out of the tracker's; the process has no tracker.
constructorThrows ==
    /\ config.enableFileStorage
    /\ file = Absent
    /\ lastOp # Op("constructor", FALSE)
    /\ defaultUserId' = undefinedStr
    /\ usageHistory' = EmptyMap
    /\ userTotals' = EmptyMap
    /\ activeTracking' = EmptyMap
    /\ saveFailed' = FALSE
    /\ lastOp' = Op("constructor", FALSE)
    /\ observed' = NothingObserved
    /\ calls' = NoCalls
    /\ UNCHANGED << config, file, now, calc, mcpResult, exchangeRate >>

\* The process holds a tracker.
HasTracker == lastOp # Op("constructor", FALSE)

NextStorage ==
    \/ Tick
    \/ \E args \in StartArgs, suffix \in RandomSuffixes :
          /\ HasTracker
          /\ startTracking(args.userId, args.sessionId, suffix)
          /\ UNCHANGED << observed, calls >>
    \/ \E trackingId \in TrackingIds, usage \in UsageInputs :
          \E outcome \in EndOutcomes(trackingId) :
             /\ HasTracker
             /\ endTracking(trackingId, usage, outcome)
             /\ UNCHANGED << observed, calls >>
    \/ \E usage \in RecordInputs(now), outcome \in OutcomesOf(config) :
          HasTracker /\ recordUsage(usage, outcome)
    \/ \E document \in ForeignDocuments : fileReplaced(document)
    \/ Restart
    \/ constructorThrows

SpecStorage == Init /\ [][NextStorage]_vars

\* C21: a storage failure never aborts the tracking flow: when the write of
\* the snapshot fails during recordUsage or endTracking the call returns, the
\* record is in the history, the totals are updated and the session is
\* removed; and constructing a tracker never throws and yields empty maps
\* when no snapshot can be read.
C21_StorageFailureNeverAborts ==
    [][/\ (lastOp'.name \in {"recordUsage", "endTracking"}
             /\ file # Corrupt /\ file' = Corrupt)
          => /\ lastOp'.ok
             /\ TotalRecords(usageHistory') = TotalRecords(usageHistory) + 1
             /\ userTotals' # userTotals
             /\ (lastOp'.name = "endTracking"
                   => Cardinality(DOMAIN activeTracking')
                         < Cardinality(DOMAIN activeTracking))
       /\ (lastOp'.name = "constructor" /\ file' = file)
          => /\ lastOp'.ok
             /\ (load(file) = null
                   => usageHistory' = EmptyMap /\ userTotals' = EmptyMap)]_vars

\* The aggregate has every field updateUserTotals reads.
CompleteTotal(total) ==
    {"totalTokens", "totalCost", "usageByModel", "lastUsed"} \subseteq DOMAIN total

\* C22: the tracker never holds a partially parsed snapshot (every aggregate
\* it holds is complete) and recordUsage never throws.
C22_WholeSnapshotOrNone ==
    /\ \A userId \in DOMAIN userTotals : CompleteTotal(userTotals[userId])
    /\ (lastOp.name = "recordUsage" => lastOp.ok)


(***************************************************************************)
(* forUser.  The tracker variables are those of the tracker forUser        *)
(* returned once it was called; the maps of the tracker it was called on   *)
(* are kept beside it, with the length of each history the new tracker     *)
(* started with.                                                           *)
(***************************************************************************)
\* forUser was called.
HasParent == "parent" \in DOMAIN observed

\* parent.forUser(userId): new TokenTracker(this.config), which loads the
\* snapshot when storage is enabled, with defaultUserId = userId.  Nothing of
\* the parent's maps is shared with it.
forUser(userId) ==
    /\ ~HasParent
    /\ config' = config
    /\ defaultUserId' = userId
    /\ usageHistory' = constructed(config, file).usageHistory
    /\ userTotals' = constructed(config, file).userTotals
    /\ activeTracking' = EmptyMap
    /\ lastOp' = Op("forUser", TRUE)
    /\ observed' = [parent |-> [usageHistory |-> usageHistory, userTotals |-> userTotals],
                    inherited |-> [u \in DOMAIN constructed(config, file).usageHistory |->
                                      Len(constructed(config, file).usageHistory[u])]]
    /\ UNCHANGED << file, now, saveFailed, calc, mcpResult, exchangeRate, calls >>

\* parent.getUserUsage(userId)
parentGetUserUsage(userId) == MapGet(observed.parent.userTotals, userId, null)

\* parent.getAllUsersUsage()
parentGetAllUsersUsage == { observed.parent.userTotals[u] : u \in DOMAIN observed.parent.userTotals }

\* The records the tracker of forUser appended for the user since it was made.
RecordedSinceForUser(userId) ==
    LET history == MapGet(usageHistory, userId, << >>)
    IN  SubSeq(history, MapGet(observed.inherited, userId, 0) + 1, Len(history))

NextForUser ==
    \/ Tick
    \/ \E suffix \in RandomSuffixes :
          startTracking(undefinedStr, undefinedStr, suffix) /\ UNCHANGED << observed, calls >>
    \/ \E trackingId \in TrackingIds, usage \in UsageInputs :
          \E outcome \in EndOutcomes(trackingId) :
             endTracking(trackingId, usage, outcome) /\ UNCHANGED << observed, calls >>
    \/ \E usage \in RecordInputs(now), outcome \in OutcomesOf(config) :
          recordUsage(usage, outcome)
    \/ \E userId \in UserIds : forUser(userId)

SpecForUser == Init /\ [][NextForUser]_vars

\* C23: usage recorded through the tracker of parent.forUser(userId) is
\* attributed to userId and visible through the parent: the parent's
\* getUserUsage(userId) includes it and its getAllUsersUsage() lists the user.
C23_VisibleThroughParent ==
    (HasParent /\ RecordedSinceForUser(defaultUserId) # << >>)
    => /\ \A i \in 1..Len(RecordedSinceForUser(defaultUserId)) :
             RecordedSinceForUser(defaultUserId)[i].userId = defaultUserId
       /\ parentGetUserUsage(defaultUserId) # null
       /\ parentGetUserUsage(defaultUserId).totalTokens
             >= SumTokens(RecordedSinceForUser(defaultUserId))
       /\ \E total \in parentGetAllUsersUsage : total.userId = defaultUserId


(***************************************************************************)
(* Wrapped calls on the tracker itself and on one of forUser.              *)
(***************************************************************************)
\* new TokenTracker(WrapConfig), or the tracker its forUser("u1") returned.
InitWrapUser ==
    /\ config = WrapConfig
    /\ defaultUserId \in {undefinedStr, "u1"}
    /\ file = Absent
    /\ usageHistory = EmptyMap
    /\ userTotals = EmptyMap
    /\ activeTracking = EmptyMap
    /\ now = 0
    /\ saveFailed = FALSE
    /\ lastOp = Op("constructor", TRUE)
    /\ observed = NothingObserved
    /\ calc = [pc |-> "idle"]
    /\ mcpResult = NoToolCall
    /\ calls = NoCalls
    /\ exchangeRate = ExchangeRateManager(DefaultExpiryHours)

SpecWrapUser == InitWrapUser /\ [][NextWrap]_vars

\* The cost of the usage record a wrapped call that returned was recorded with.
OwnCost(call) ==
    TrackerCalculateCost(config, call.wrapper, ModelOf(call),
                         ResponseInputTokens, ResponseOutputTokens).amount

\* C24: the _tokenUsage.cost attached to the response of a wrapped call is the
\* cost of that call's own usage record, after any number of earlier calls and
\* on a tracker bound to any user.
C24_OwnCostAttached ==
    \A c \in Calls :
       (calls[c].pc = "returned" /\ calls[c].tokenUsage # undefinedObj)
       => calls[c].tokenUsage.cost = OwnCost(calls[c])


\* C25: startTracking returns a fresh id, one that differs from every id
\* issued earlier and from every active session's id, and so never overwrites
\* the entry of another active session.
C25_FreshId ==
    [][(lastOp'.name = "startTracking" /\ now' = now)
       => /\ observed'.issued # observed.issued
          /\ DOMAIN activeTracking' # DOMAIN activeTracking
          /\ \A trackingId \in DOMAIN activeTracking :
                activeTracking'[trackingId] = activeTracking[trackingId]]_vars


(***************************************************************************)
(* The cache protocol of getUSDtoKRW, with two rates the API may return    *)
(* and a cache file that may be lost or damaged between calls.             *)
(***************************************************************************)
\* The outcomes of fetchExchangeRate, with a second rate.
RateFetchOutcomes == FetchOutcomes \cup {[ok |-> TRUE, rate |-> 1400]}

\* exchange-rate.json is deleted, left unparseable, or replaced by another
\* JSON document.
cacheDamaged(damaged) ==
    /\ exchangeRate.cache # damaged
    /\ exchangeRate' = [exchangeRate EXCEPT !.cache = damaged]
    /\ UNCHANGED << config, defaultUserId, usageHistory, userTotals,
                    activeTracking, file, now, saveFailed, lastOp, observed,
                    calc, mcpResult, calls >>

NextRate ==
    \/ Tick
    \/ \E fetched \in RateFetchOutcomes, written \in BOOLEAN :
          getUSDtoKRW(fetched, written)
    \/ \E damaged \in {Absent, Corrupt} : cacheDamaged(damaged)

\* The expiries the manager is constructed with: none, one hour, the default.
RateExpiryHours == ExpiryHours \cup {1}

InitRate ==
    /\ InitTracker
    /\ \E cacheExpiryHours \in RateExpiryHours :
          exchangeRate = ExchangeRateManager(cacheExpiryHours)

SpecRate == InitRate /\ [][NextRate]_vars

\* C26: getUSDtoKRW returns the cached rate without fetching when a cache
\* exists and is not older than the expiry; otherwise it fetches, and on
\* success returns the fresh rate and stores it (when the write succeeds), on
\* failure returns the last cached rate if there is one and 1380 otherwise;
\* it always returns a rate.
C26_CacheProtocol ==
    [][\A fetched \in RateFetchOutcomes, written \in BOOLEAN :
          getUSDtoKRW(fetched, written)
          => LET cache == exchangeRate.cache
                 exists == cache # Absent /\ cache # Corrupt
                 age == IF exists THEN now - newDate(cache.lastUpdated) ELSE 0
             IN  /\ exchangeRate'.returned # undefinedNum
                 /\ IF exists /\ age <= exchangeRate.cacheExpiryHours
                    THEN /\ exchangeRate'.returned = cache.rate
                         /\ exchangeRate'.cache = cache
                    ELSE IF fetched.ok
                    THEN /\ exchangeRate'.returned = fetched.rate
                         /\ written => /\ exchangeRate'.cache.rate = fetched.rate
                                       /\ newDate(exchangeRate'.cache.lastUpdated) = now
                         /\ ~written => exchangeRate'.cache = cache
                    ELSE /\ exchangeRate'.returned = IF exists THEN cache.rate
                                                     ELSE fallbackRate
                         /\ exchangeRate'.cache = cache]_vars

\* The fallback was returned: a fetch failed with no cache to read.
C26_Witness ==
    /\ exchangeRate.returned = fallbackRate
    /\ exchangeRate.cache \in {Absent, Corrupt}


\* C27: compare_costs is a pure read, like the other query tools: the
\* histories, the aggregates, the active sessions and the persisted snapshot
\* are the same after it as before, also when a user named _compare has
\* recorded usage.
C27_CompareIsPureRead ==
    [][(lastOp'.name = "compare_costs" /\ now' = now)
       => UNCHANGED << usageHistory, userTotals, activeTracking, file >>]_vars


(***************************************************************************)
(* Concurrently in-flight tracked calls on one tracker: each is a          *)
(* startTracking, an awaited provider call and the endTracking of its      *)
(* continuation.  A continuation runs to completion before another starts. *)
(***************************************************************************)
\* The provider calls that are tracked.
TrackedCalls == { args \in WrappedCalls : ~args.stream /\ args.wrapper # "gemini" }

\* Call c starts: startTracking(userId, sessionId), then the provider call is
\* made and awaited.
trackedCallStarts(c, start, args, suffix) ==
    /\ calls[c].pc = "idle"
    /\ IF c = 1 THEN TRUE ELSE calls[c - 1].pc # "idle"
    /\ startTrackingEffect(start.userId, start.sessionId, suffix)
    /\ calls' = [calls EXCEPT ![c] = Awaiting(args, TrackingId(now, suffix))]
    /\ UNCHANGED observed

NextConcurrent ==
    \/ \E c \in Calls, start \in StartArgs, args \in TrackedCalls,
          suffix \in RandomSuffixes :
          trackedCallStarts(c, start, args, suffix)
    \/ \E c \in Calls, outcome \in OutcomesOf(config) :
          providerResolves(c, FALSE, outcome)
    \/ \E c \in Calls, outcome \in OutcomesOf(config) :
          providerRejects(c, outcome)

SpecConcurrent == InitWrap /\ [][NextConcurrent]_vars

\* The calls whose endTracking recorded their usage.
EndedCalls == { c \in Calls : calls[c].pc # "idle" /\ calls[c].closed }

\* C28: under every interleaving of in-flight tracked calls no update of the
\* totals is lost: every user's totals and per-model breakdown are the sums
\* over the records of the ended sessions, one record for each.
C28_NoLostUpdate ==
    /\ DOMAIN userTotals = DOMAIN usageHistory
    /\ TotalRecords(usageHistory) = Cardinality(EndedCalls)
    /\ \A userId \in DOMAIN usageHistory :
          /\ userTotals[userId].totalTokens = SumTokens(usageHistory[userId])
          /\ userTotals[userId].totalCost = SumCost(usageHistory[userId])
          /\ DOMAIN userTotals[userId].usageByModel
                = { ModelKey(usageHistory[userId][i]) :
                       i \in 1..Len(usageHistory[userId]) }
          /\ \A modelKey \in DOMAIN userTotals[userId].usageByModel :
                /\ userTotals[userId].usageByModel[modelKey].tokens
                      = SumTokens(OfModel(usageHistory[userId], modelKey))
                /\ userTotals[userId].usageByModel[modelKey].cost
                      = SumCost(OfModel(usageHistory[userId], modelKey))

\* Two calls of one user were in flight at once under different ids and ended
\* in the reverse of the order they started in: the second call's record
\* precedes the first's.
C28_Witness ==
    /\ calls[1].pc = "returned" /\ calls[2].pc = "returned"
    /\ calls[1].trackingId # calls[2].trackingId
    /\ calls[1].wrapper = "openai" /\ calls[2].wrapper = "anthropic"
    /\ "anonymous" \in DOMAIN usageHistory
    /\ Len(usageHistory["anonymous"]) = 2
    /\ usageHistory["anonymous"][1].provider = "anthropic"
    /\ usageHistory["anonymous"][2].provider = "openai"


\* s is a prefix of t.
IsPrefix(s, t) == Len(s) <= Len(t) /\ SubSeq(t, 1, Len(s)) = s

\* C29: a user's history is append-only between clears: no step other than a
\* clear (or the construction of a new tracker) removes, reorders or alters a
\* record, a recordUsage appends exactly its record, and the aggregate's
\* lastUsed is the timestamp of the last record of the history.
C29_AppendOnly ==
    [][/\ lastOp'.name \notin {"clearUserUsage", "clearAllStorage", "constructor"}
          => \A userId \in DOMAIN usageHistory :
                /\ userId \in DOMAIN usageHistory'
                /\ IsPrefix(usageHistory[userId], usageHistory'[userId])
       /\ (lastOp'.name = "recordUsage" /\ usageHistory' # usageHistory)
          => TotalRecords(usageHistory') = TotalRecords(usageHistory) + 1
       /\ \A userId \in DOMAIN usageHistory' :
             usageHistory'[userId] # << >>
             => /\ userId \in DOMAIN userTotals'
                /\ userTotals'[userId].lastUsed
                      = usageHistory'[userId][Len(usageHistory'[userId])].timestamp]_vars


(***************************************************************************)
(* tracker.wrap(client): the wrapper is chosen by the lower-cased name of  *)
(* the client's constructor; calls are then made through it.              *)
(***************************************************************************)
UpperCase == "ABCDEFGHIJKLMNOPQRSTUVWXYZ"

LowerCase == "abcdefghijklmnopqrstuvwxyz"

RECURSIVE toLowerCase(_)
\* String.prototype.toLowerCase, for ASCII letters.
toLowerCase(s) ==
    IF s = "" THEN ""
    ELSE LET c == CharAt(s, 1)
             lowered == IF \E i \in 1..Len(UpperCase) : CharAt(UpperCase, i) = c
                        THEN CharAt(LowerCase,
                                    CHOOSE i \in 1..Len(UpperCase) : CharAt(UpperCase, i) = c)
                        ELSE c
         IN  lowered \o toLowerCase(SubSeq(s, 2, Len(s)))

\* The constructor names of the clients handed to wrap.
ClientNames ==
    {"OpenAI", "AzureOpenAI", "Anthropic", "ClaudeClient",
     "GoogleGenerativeAI", "GeminiClient", "Object"}

\* A wrap that treats a client it does not recognize as an OpenAI client.
WrapperOf_Fallback(constructorName) ==
    LET clientName == toLowerCase(constructorName)
    IN  IF Includes(clientName, "anthropic") \/ Includes(clientName, "claude")
        THEN "anthropic"
        ELSE "openai"

\* The wrapper wrap(client) constructs: OpenAIWrapper, AnthropicWrapper, or
\* none (it throws `Unsupported client`).
WrapperOf(constructorName) ==
    LET clientName == toLowerCase(constructorName)
    IN  IF Includes(clientName, "openai") THEN "openai"
        ELSE IF Includes(clientName, "anthropic") \/ Includes(clientName, "claude")
        THEN "anthropic"
        ELSE "unsupported"

\* tracker.wrap(client)
wrap(constructorName) ==
    /\ calc.pc = "idle"
    /\ \E wrapper \in {WrapperOf(constructorName)} :
          /\ calc' = [pc |-> IF wrapper = "unsupported" THEN "threw" ELSE "wrapped",
                      client |-> constructorName, wrapper |-> wrapper]
          /\ lastOp' = Op("wrap", wrapper # "unsupported")
    /\ UNCHANGED << config, defaultUserId, usageHistory, userTotals, activeTracking,
                    file, now, saveFailed, observed, mcpResult, exchangeRate, calls >>

\* A call through the client wrap returned.
clientCall(c, args, suffix) ==
    /\ calc.pc = "wrapped"
    /\ args.wrapper = calc.wrapper
    /\ wrapCall(c, args, suffix)

NextClient ==
    \/ \E constructorName \in ClientNames : wrap(constructorName)
    \/ \E c \in Calls, args \in WrappedCalls, suffix \in RandomSuffixes :
          clientCall(c, args, suffix)
    \/ \E c \in Calls : settles(c)
    \/ \E c \in Calls : streamAbandoned(c)

SpecClient == InitWrap /\ [][NextClient]_vars

\* C30: wrap returns a client wrapped by the Gemini wrapper for a constructor
\* name containing gemini or google, as it returns the OpenAI wrapper for
\* names containing openai and the Anthropic wrapper for names containing
\* anthropic or claude.
C30_WrapsGemini ==
    calc.pc \in {"wrapped", "threw"}
    => LET clientName == toLowerCase(calc.client)
       IN  /\ Includes(clientName, "openai")
              => calc.pc = "wrapped" /\ calc.wrapper = "openai"
           /\ (~Includes(clientName, "openai")
                 /\ (Includes(clientName, "anthropic") \/ Includes(clientName, "claude")))
              => calc.pc = "wrapped" /\ calc.wrapper = "anthropic"
           /\ (~Includes(clientName, "openai")
                 /\ ~Includes(clientName, "anthropic") /\ ~Includes(clientName, "claude")
                 /\ (Includes(clientName, "gemini") \/ Includes(clientName, "google")))
              => calc.pc = "wrapped" /\ calc.wrapper = "gemini"


(***************************************************************************)
(* wrap on a tracker in use: sessions are started and ended before and     *)
(* after the client is handed to wrap.                                     *)
(***************************************************************************)
NextUnsupported ==
    \/ \E args \in StartArgs, suffix \in RandomSuffixes :
          startTracking(args.userId, args.sessionId, suffix) /\ UNCHANGED << observed, calls >>
    \/ \E trackingId \in TrackingIds, usage \in UsageInputs :
          \E outcome \in EndOutcomes(trackingId) :
             endTracking(trackingId, usage, outcome) /\ UNCHANGED << observed, calls >>
    \/ \E constructorName \in ClientNames : wrap(constructorName)

SpecUnsupported == Init /\ [][NextUnsupported]_vars

\* The constructor name holds none of the words wrap looks for.
Unrecognized(constructorName) ==
    /\ ~Includes(toLowerCase(constructorName), "openai")
    /\ ~Includes(toLowerCase(constructorName), "anthropic")
    /\ ~Includes(toLowerCase(constructorName), "claude")

\* C31: wrap of a client of an unrecognized type throws `Unsupported client`
\* at once and leaves the tracker as it was: no session is started and no
\* history, aggregate or persisted snapshot is modified.
C31_UnsupportedClient ==
    [][(calc.pc = "idle" /\ calc'.pc # "idle" /\ Unrecognized(calc'.client))
       => /\ calc'.pc = "threw"
          /\ lastOp' = Op("wrap", FALSE)
          /\ UNCHANGED << usageHistory, userTotals, activeTracking, file >>]_vars

\* wrap threw for a plain object while a session was active and usage was
\* recorded.
C31_Witness ==
    /\ calc.pc = "threw"
    /\ calc.client = "Object"
    /\ lastOp = Op("wrap", FALSE)
    /\ activeTracking # EmptyMap
    /\ usageHistory # EmptyMap


(***************************************************************************)
(* The active-session map against the calls made: an observer counts the   *)
(* ids startTracking returned and the calls of endTracking that returned.  *)
(***************************************************************************)
\* The most calls of startTracking that are counted.
MaxStarts == 3

\* The calls of startTracking so far.
Starts == IF "starts" \in DOMAIN observed THEN observed.starts ELSE 0

\* The calls of endTracking that returned so far.
SuccessfulEnds == IF "ends" \in DOMAIN observed THEN observed.ends ELSE 0

NextActive ==
    \/ Tick
    \/ \E args \in StartArgs, suffix \in RandomSuffixes :
          /\ Starts < MaxStarts
          /\ startTracking(args.userId, args.sessionId, suffix)
          /\ observed' = [starts |-> Starts + 1, ends |-> SuccessfulEnds]
          /\ UNCHANGED calls
    \/ \E trackingId \in TrackingIds, usage \in UsageInputs :
          \E outcome \in EndOutcomes(trackingId) :
             /\ endTracking(trackingId, usage, outcome)
             /\ observed' = [starts |-> Starts,
                             ends |-> IF endTrackingReturns(trackingId, usage)
                                      THEN SuccessfulEnds + 1 ELSE SuccessfulEnds]
             /\ UNCHANGED calls
    \/ \E userId \in UserIds \cup {"anonymous"}, outcome \in OutcomesOf(config) :
          clearUserUsage(userId, outcome)
    \/ \E unlinked \in BOOLEAN : clearAllStorage(unlinked)
    \/ \E data \in ImportPayloads : importUsageData(data)

SpecActive == Init /\ [][NextActive]_vars

\* C32: the active-session map holds exactly the sessions started and not yet
\* ended successfully: its size is the number of calls of startTracking minus
\* the number of successful calls of endTracking.
C32_StartsMinusEnds ==
    Cardinality(DOMAIN activeTracking) = Starts - SuccessfulEnds

\* An entry leaves the map only in a step of an endTracking that returned:
\* the clears and the import leave every session in place.
OnlyEndRemoves ==
    [][(\E trackingId \in DOMAIN activeTracking :
           trackingId \notin DOMAIN activeTracking')
       => lastOp' = Op("endTracking", TRUE)]_vars


\* C33: endTracking called with an unknown or an already consumed id (one the
\* active-session map does not hold) throws before any effect: the histories,
\* the aggregates, the active sessions and the persisted snapshot are the same
\* after the call as before it.
C33_FailedEndChangesNothing ==
    [][\A trackingId \in TrackingIds, usage \in UsageInputs :
         \A outcome \in EndOutcomes(trackingId) :
            (/\ endTracking(trackingId, usage, outcome)
             /\ trackingId \notin DOMAIN activeTracking)
            => (/\ lastOp' = Op("endTracking", FALSE)
                /\ UNCHANGED << usageHistory, userTotals, activeTracking,
                                file, saveFailed >>)]_vars

\* An endTracking failed on a tracker that has ended a session and recorded
\* its usage, while another session is active.
C33_Witness ==
    /\ lastOp = Op("endTracking", FALSE)
    /\ usageHistory # EmptyMap
    /\ activeTracking # EmptyMap
    /\ file # Absent


\* C34: a wrapped non-streaming call that has settled produced exactly one
\* usage record and called endTracking at most once for its tracking id, on
\* every path, the one where attaching _tokenUsage throws after endTracking
\* succeeded included.
C34_EndsAtMostOnce ==
    \A c \in Calls :
       (calls[c].pc \in {"returned", "raised"}
          /\ (~calls[c].stream \/ calls[c].wrapper = "gemini"))
       => calls[c].closed /\ calls[c].ends <= 1


(***************************************************************************)
(* Two tracker instances over one storage file: the tracker and the one    *)
(* its forUser returned.  The tracker variables stand for the instance     *)
(* whose method runs next; the maps of the other are kept beside them.     *)
(***************************************************************************)
\* Control passes to the other instance.  (defaultUserId and activeTracking,
\* which recordUsage does not read, are left as they are.)
otherInstance ==
    /\ HasParent
    /\ usageHistory' = observed.parent.usageHistory
    /\ userTotals' = observed.parent.userTotals
    /\ observed' = [observed EXCEPT
                      !.parent = [usageHistory |-> usageHistory,
                                  userTotals |-> userTotals]]
    /\ lastOp' = Op("otherInstance", TRUE)
    /\ UNCHANGED << config, defaultUserId, activeTracking, file, now, saveFailed,
                    calc, mcpResult, exchangeRate, calls >>

NextShared ==
    \/ Tick
    \/ \E usage \in RecordInputs(now) \cup CompareRecordInputs(now),
          outcome \in OutcomesOf(config) \ {"corrupt"} :
          recordUsage(usage, outcome)
    \/ \E userId \in UserIds : forUser(userId)
    \/ otherInstance

SpecShared == Init /\ [][NextShared]_vars

\* The record is in the history the snapshot file holds for its user.
Persisted(usage) ==
    /\ load(file) # null
    /\ HistoryKey(usage) \in DOMAIN load(file).history
    /\ usage \in Range(load(file).history[HistoryKey(usage)])

\* The records of every user in the histories.
RecordsOf(history) ==
    UNION { Range(history[userId]) : userId \in DOMAIN history }

\* C35: when several tracker instances share the storage file, the persisted
\* snapshot holds every record any of them wrote: the save of one instance
\* never discards records another has persisted.
C35_SharedFileKeepsAll ==
    (config.enableFileStorage /\ HasParent)
    => \A usage \in RecordsOf(usageHistory) \cup RecordsOf(observed.parent.usageHistory) :
          Persisted(usage)


\* C36: every user's totalCost is a sum in one currency: each record of a
\* user's history has the cost currency of that user's aggregate, also when
\* endTracking was given an explicit cost object.
C36_OneCurrency ==
    \A userId \in DOMAIN usageHistory :
       userId \in DOMAIN userTotals
       => \A i \in 1..Len(usageHistory[userId]) :
             usageHistory[userId][i].cost.currency = userTotals[userId].currency


(***************************************************************************)
(* The get_current_session tool of the MCP server.                         *)
(***************************************************************************)
\* total_budget = 190000
DefaultBudget == 190000

\* const barLength = 20
barLength == 20

\* The budgets the tool is called with; undefined takes the default.
Budgets == {undefinedNum, 0, 100, 150}

\* The users the tool is asked about.
SessionUsers == {"anonymous", "u2", "current-session"}

\* Sum of record.inputTokens || 0 over the records.
RECURSIVE SumInput(_)
SumInput(history) ==
    IF history = << >> THEN 0
    ELSE OrNum(history[1].inputTokens, 0) + SumInput(Tail(history))

\* Sum of record.outputTokens || 0 over the records.
RECURSIVE SumOutput(_)
SumOutput(history) ==
    IF history = << >> THEN 0
    ELSE OrNum(history[1].outputTokens, 0) + SumOutput(Tail(history))

\* Math.round((usedTokens / total_budget) * barLength): a number, Infinity
\* for a positive count over a budget of 0, NaN for 0 over 0.
FilledLength(usedTokens, total_budget) ==
    IF total_budget = 0
    THEN IF usedTokens = 0 THEN [nan |-> TRUE] ELSE [infinity |-> TRUE]
    ELSE [number |-> (2 * usedTokens * barLength + total_budget) \div (2 * total_budget)]

\* String.prototype.repeat(count) throws a RangeError for a negative or an
\* infinite count.
RepeatThrows(count) ==
    \/ "infinity" \in DOMAIN count
    \/ "number" \in DOMAIN count /\ count.number < 0

\* The length of "x".repeat(count): NaN counts as 0.
RepeatLength(count) == IF "number" \in DOMAIN count THEN count.number ELSE 0

\* barLength - filledLength
EmptyLength(filledLength) ==
    IF "number" \in DOMAIN filledLength
    THEN [number |-> barLength - filledLength.number]
    ELSE IF "nan" \in DOMAIN filledLength THEN [nan |-> TRUE]
    ELSE [number |-> -1]

\* What getCurrentSession({user_id, total_budget}) returns, or that it threw.
currentSession(user_id, budget) ==
    LET total_budget == IF budget = undefinedNum THEN DefaultBudget ELSE budget
        usage == getUserUsage(user_id)
        history == getUserHistory(user_id, DefaultLimit)
        filledLength == FilledLength(usage.totalTokens, total_budget)
        emptyLength == EmptyLength(filledLength)
    IN  IF usage = null
        THEN [tool |-> "get_current_session", user_id |-> user_id,
              total_budget |-> total_budget, threw |-> FALSE, bar |-> FALSE,
              used |-> 0, remaining |-> total_budget, input |-> 0, output |-> 0]
        ELSE IF RepeatThrows(filledLength) \/ RepeatThrows(emptyLength)
        THEN [tool |-> "get_current_session", user_id |-> user_id,
              total_budget |-> total_budget, threw |-> TRUE]
        ELSE [tool |-> "get_current_session", user_id |-> user_id,
              total_budget |-> total_budget, threw |-> FALSE, bar |-> TRUE,
              used |-> usage.totalTokens,
              remaining |-> IF total_budget - usage.totalTokens > 0
                            THEN total_budget - usage.totalTokens ELSE 0,
              input |-> SumInput(history), output |-> SumOutput(history),
              filled |-> RepeatLength(filledLength),
              empty |-> RepeatLength(emptyLength)]

\* The get_current_session tool is called.
getCurrentSession(user_id, budget) ==
    /\ \E result \in {currentSession(user_id, budget)} :
          /\ mcpResult' = result
          /\ lastOp' = Op("get_current_session", ~result.threw)
    /\ UNCHANGED << config, defaultUserId, usageHistory, userTotals,
                    activeTracking, file, now, saveFailed, observed, calc,
                    exchangeRate, calls >>

NextBudget ==
    \/ \E args \in StartArgs, suffix \in RandomSuffixes :
          startTracking(args.userId, args.sessionId, suffix) /\ UNCHANGED << observed, calls >>
    \/ \E trackingId \in TrackingIds, usage \in UsageInputs :
          \E outcome \in EndOutcomes(trackingId) :
             endTracking(trackingId, usage, outcome) /\ UNCHANGED << observed, calls >>
    \/ \E user_id \in SessionUsers, budget \in Budgets :
          getCurrentSession(user_id, budget)

SpecBudget == InitCompare /\ [][NextBudget]_vars

\* C37: get_current_session returns a summary without throwing for every
\* recorded usage and every budget; the remaining amount is
\* max(0, budget - used) and the progress bar has exactly 20 cells, also when
\* the used tokens exceed the budget and when the budget is 0.
C37_SummaryNeverThrows ==
    mcpResult.tool = "get_current_session"
    => /\ ~mcpResult.threw
       /\ mcpResult.remaining
             = IF mcpResult.total_budget - mcpResult.used > 0
               THEN mcpResult.total_budget - mcpResult.used ELSE 0
       /\ mcpResult.bar => mcpResult.filled + mcpResult.empty = barLength


(***************************************************************************)
(* get_current_session over a tracker that was constructed from a snapshot *)
(* of an earlier run.                                                      *)
(***************************************************************************)
\* The longest history a snapshot holds.
MaxSnapshot == 101

\* The numbers of records in the snapshot the server starts from.
SnapshotLengths == {1, MaxSnapshot - 1, MaxSnapshot}

\* A usage of user u2 as track_usage records it: its totalTokens is
\* input_tokens + output_tokens.
SessionRecord ==
    [provider |-> "openai", model |-> "gpt-3.5-turbo", totalTokens |-> 150,
     inputTokens |-> 100, outputTokens |-> 50, cost |-> Cost(1250000, "USD"),
     timestamp |-> 0, userId |-> "u2", sessionId |-> undefinedStr,
     metadata |-> undefinedObj]

\* The snapshot saveToStorage wrote after n such usages were recorded.
SnapshotOf(n) ==
    SavedDocument(
        [u \in {"u2"} |-> [i \in 1..n |-> SessionRecord]],
        [u \in {"u2"} |->
            [userId |-> "u2", totalTokens |-> n * SessionRecord.totalTokens,
             totalCost |-> n * SessionRecord.cost.amount, currency |-> "USD",
             usageByModel |->
                 [k \in {ModelKey(SessionRecord)} |->
                     [tokens |-> n * SessionRecord.totalTokens,
                      cost |-> n * SessionRecord.cost.amount]],
             lastUsed |-> 0]],
        0)

\* new TokenTracker({ currency: 'USD' }) over the snapshot of an earlier run.
InitSnapshot ==
    /\ config = [currency |-> "USD", enableFileStorage |-> TRUE]
    /\ defaultUserId = undefinedStr
    /\ \E n \in SnapshotLengths : file = SnapshotOf(n)
    /\ usageHistory = constructed(config, file).usageHistory
    /\ userTotals = constructed(config, file).userTotals
    /\ activeTracking = EmptyMap
    /\ now = 0
    /\ saveFailed = FALSE
    /\ lastOp = Op("constructor", TRUE)
    /\ observed = NothingObserved
    /\ calc = [pc |-> "idle"]
    /\ mcpResult = NoToolCall
    /\ calls = NoCalls
    /\ exchangeRate = ExchangeRateManager(DefaultExpiryHours)

SpecSnapshot == InitSnapshot /\ [][NextBudget]_vars

\* Every record of the history has totalTokens = inputTokens + outputTokens.
TotalsAddUp(history) ==
    \A i \in 1..Len(history) :
       history[i].totalTokens
          = OrNum(history[i].inputTokens, 0) + OrNum(history[i].outputTokens, 0)

\* C38: the Input and Output totals get_current_session reports are the sums
\* of inputTokens and outputTokens over the user's entire history, so that
\* Input + Output equals the reported Used tokens whenever every record has
\* totalTokens = inputTokens + outputTokens, for histories of any length,
\* more than 100 records included.
C38_InputPlusOutputIsUsed ==
    (lastOp = Op("get_current_session", TRUE) /\ mcpResult.bar)
    => LET history == MapGet(usageHistory, mcpResult.user_id, << >>)
       IN  /\ mcpResult.input = SumInput(history)
           /\ mcpResult.output = SumOutput(history)
           /\ TotalsAddUp(history)
              => mcpResult.input + mcpResult.output = mcpResult.used


(***************************************************************************)
(* getUSDtoKRW over every state of the cache file: missing, unparseable,   *)
(* written by saveToCache (fresh or expired), or a JSON object that lacks  *)
(* the rate, the lastUpdated, or both.                                     *)
(***************************************************************************)
\* JSON objects in exchange-rate.json that saveToCache did not write.
ForeignCaches ==
    { [source |-> "manual"],
      [rate |-> 1300, source |-> "manual"],
      [lastUpdated |-> toISOString(0), source |-> "manual"] }

NextCache ==
    \/ Tick
    \/ \E fetched \in RateFetchOutcomes, written \in BOOLEAN :
          getUSDtoKRW(fetched, written)
    \/ \E damaged \in {Absent, Corrupt} \cup ForeignCaches : cacheDamaged(damaged)

SpecCache == InitRate /\ [][NextCache]_vars

\* C39: getUSDtoKRW always resolves to a finite positive number and never
\* rejects, for every state of the cache file (missing, fresh, expired,
\* unparseable, or parseable but lacking rate or lastUpdated) and every
\* outcome of the fetch.
C39_AlwaysPositiveRate ==
    [][\A fetched \in RateFetchOutcomes, written \in BOOLEAN :
          getUSDtoKRW(fetched, written)
          => /\ exchangeRate'.returned # undefinedNum
             /\ exchangeRate'.returned > 0]_vars

====
